---------------------------- MODULE Spec2Model ----------------------------
(***************************************************************************)
(* Model of the ECU BIN reader: the CAN transport, the UDS and KWP         *)
(* response parsers and request encoders, seed/key security access, and    *)
(* the facade ECUManger with its chunked memory-read loop read_bin_file.   *)
(*                                                                         *)
(* A byte is an integer 0..255, a frame's data a sequence of bytes.  A     *)
(* service call is one transmit followed by one receive; the model splits  *)
(* it in two steps (SendRequest, ReceiveResponse) so that the ECU's reply  *)
(* is a choice of the environment.                                         *)
(***************************************************************************)
EXTENDS Integers, Sequences, FiniteSets, TLC

VARIABLES
    can_bus,          \* ECUManger.can_bus: "none" | "closed" | "open"
    uds_protocol,     \* ECUManger.uds_protocol is attached
    kwp_protocol,     \* ECUManger.kwp_protocol is attached
    init_result,      \* return value of the latest initialize_communication
    selected_ecu,     \* ECUManger.selected_ecu (NoEcu when None)
    bin_data,         \* ECUManger.bin_data
    read_progress,    \* ECUManger.read_progress
    pc,               \* position of the read_bin_file call
    awaiting,         \* a request was transmitted, its response is pending
    start_address,    \* read_bin_file argument
    end_address,      \* read_bin_file argument
    current_address,  \* read_bin_file local
    level_ix,         \* index in SecurityLevels of the level being tried
    key,              \* key computed for the level being tried
    result,           \* return value of the latest read_bin_file call
    last_tx,          \* last frame handed to the bus
    run,              \* history: number of read_bin_file calls so far
    bin_run,          \* history: for each byte of bin_data, the run that read it
    sec_result,       \* history: outcome of security access in the latest run
    last_block,       \* history: outcome of the latest block read of the run:
                      \* "none", "ok", "failed" (negative or no response),
                      \* "unread" (no protocol encoder to read with)
    last_req,         \* history: arguments of the latest memory-read request
    sec_log,          \* history: the security-access frames sent in the
                      \* latest negotiation, each with the class of its answer
    negotiated,       \* history: the latest read_bin_file call negotiated
    discovered_ecus,  \* ECUManger.discovered_ecus
    scan_pc,          \* position of the scan_ecus call: "idle", or the probe
                      \* _probe_ecu tries next, "uds", "kwp" or "can"
    scan_address,     \* scan_ecus loop variable
    probed,           \* history: addresses _probe_ecu was called with in the
                      \* latest sweep
    probe_log,        \* history: the probes sent to the latest address
                      \* probed, each with whether its answer counts
    answered,         \* history: the probes answered positively in the
                      \* latest sweep
    cancel_requested, \* the host has asked for the running read to stop
    saved,            \* the file the latest successful save_bin_file wrote
    save_result,      \* return value of the latest save_bin_file call
    received,         \* history: the payloads of the positive memory-read
                      \* responses of the latest read, in the order received
    seen,             \* what the latest get_progress call showed its caller
    read_block,       \* read_bin_file local block_data: the block just read
    select_result,    \* return value of the latest select_ecu call
    ident_log,        \* history: what became of the two identification
                      \* reads of the latest select_ecu
    run_log,          \* history: what each service call of the latest
                      \* read_bin_file returned, in order
    first_run,        \* history: the inputs and the outcome of the first
                      \* read_bin_file call
    call,             \* history: the transmits and receives of the latest
                      \* protocol service call, and what it returned
    seed_key_algorithms, \* SecurityAccess.seed_key_algorithms: the registry,
                      \* a function from names to derivations
    fn_in,            \* input of a pure function under test
    fn_out            \* its output

vars == <<can_bus, uds_protocol, kwp_protocol, init_result, select_result,
                   selected_ecu,
          bin_data,
          read_progress, pc, awaiting, start_address, end_address,
          current_address, level_ix, key, result, last_tx, run, bin_run,
          sec_result, last_block, last_req, sec_log, negotiated,
          discovered_ecus, scan_pc, scan_address, probed, probe_log, answered,
          cancel_requested, saved, save_result, received, seen, read_block,
          select_result, ident_log, run_log, first_run, call,
          seed_key_algorithms, fn_in, fn_out>>

-----------------------------------------------------------------------------
(* Bounds of the model *)

MaxRuns == 2          \* read_bin_file calls per behaviour
MaxRange == 3         \* largest end_address - start_address
MaxFrameLen == 3      \* longest frame given to a parser under test
EncSpread == 4        \* values drawn on either side of a length-prefix change
MaxSeedLen == 4       \* longest seed built from SeedBytes
MaxDetRuns == 3       \* read_bin_file calls compared with one another

(* Program constants *)

BlockSize == 256
UDS_POSITIVE == 64    \* UDSProtocol.NRC_POSITIVE_RESPONSE = 0x40
UDS_NEGATIVE == 127   \* 0x7F
KWP_POSITIVE == 193   \* KWPProtocol.NRC_POSITIVE_RESPONSE = 0xC1
KWP_NEGATIVE == 191   \* 0xBF
UDS_SID_SECURITY_ACCESS == 39          \* 0x27
UDS_SID_READ_DATA_BY_IDENTIFIER == 34  \* 0x22
UDS_SID_READ_MEMORY_BY_ADDRESS == 35   \* 0x23
KWP_SID_SECURITY_ACCESS == 225         \* 0xE1
KWP_SID_READ_MEMORY_BY_ADDRESS == 163  \* 0xA3
NRC_TIME_DELAY == 55                   \* 0x37
UDS_SID_DIAGNOSTIC_SESSION_CONTROL == 16   \* 0x10
KWP_SID_START_COMMUNICATION == 129         \* 0x81
ScanFirst == 2016                      \* 0x7E0, range(0x7E0, 0x7F0)
ScanLast == 2031                       \* 0x7EF

\* The levels in another order
SecurityLevelsSwapped == <<1, 3, 2, 5, 7>>

SecurityLevels == <<1, 2, 3, 5, 7>>

-----------------------------------------------------------------------------
(* Bytes and bit operations *)

Min(a, b) == IF a <= b THEN a ELSE b

RECURSIVE XorBits(_, _, _)
XorBits(a, b, n) ==
    IF n = 0 THEN 0
    ELSE ((a + b) % 2) + 2 * XorBits(a \div 2, b \div 2, n - 1)

Xor(a, b) == XorBits(a, b, 8)

-----------------------------------------------------------------------------
(* Response records.  Python's None is NoneResp; a dict is a record with   *)
(* the dict's keys.  A missing service id (None) is NullSid.               *)

NoneResp == [none |-> TRUE]
NullSid == -1

UdsNrcDescription(nrc) ==
    CASE nrc = 17 -> "Service not supported"
      [] nrc = 18 -> "Sub-function not supported"
      [] nrc = 19 -> "Incorrect message length"
      [] nrc = 34 -> "Conditions not correct"
      [] nrc = 36 -> "Request sequence error"
      [] nrc = 51 -> "Security access denied"
      [] nrc = 53 -> "Invalid key"
      [] nrc = 54 -> "Exceeded number of attempts"
      [] nrc = 55 -> "Required time delay not expired"
      [] nrc = 114 -> "General programming failure"
      [] nrc = 115 -> "Wrong block sequence counter"
      [] nrc = 127 -> "Request correctly received, response pending"
      [] OTHER -> "Unknown NRC"

\* A table lookup that has no default text
KwpNrcDescriptionNoDefault(nrc) ==
    CASE nrc = 17 -> "Service not supported"
      [] nrc = 18 -> "Sub-function not supported"
      [] nrc = 19 -> "Incorrect message length"
      [] nrc = 34 -> "Conditions not correct"
      [] nrc = 36 -> "Request sequence error"
      [] nrc = 51 -> "Security access denied"
      [] nrc = 53 -> "Invalid key"
      [] nrc = 54 -> "Exceeded number of attempts"
      [] nrc = 55 -> "Required time delay not expired"
      [] OTHER -> ""

\* KWPProtocol._get_nrc_description; the default text is "Unknown NRC: 0x.."
KwpNrcDescription(nrc) ==
    CASE nrc = 17 -> "Service not supported"
      [] nrc = 18 -> "Sub-function not supported"
      [] nrc = 19 -> "Incorrect message length"
      [] nrc = 34 -> "Conditions not correct"
      [] nrc = 36 -> "Request sequence error"
      [] nrc = 51 -> "Security access denied"
      [] nrc = 53 -> "Invalid key"
      [] nrc = 54 -> "Exceeded number of attempts"
      [] nrc = 55 -> "Required time delay not expired"
      [] OTHER -> "Unknown NRC"

Tail2(data) == IF Len(data) > 2 THEN SubSeq(data, 3, Len(data)) ELSE <<>>

\* UDSProtocol._parse_uds_response on the data bytes of the received message
ParseUdsResponse(data) ==
    IF Len(data) < 1 THEN NoneResp
    ELSE IF data[1] = UDS_POSITIVE
    THEN [positive |-> TRUE,
          sid |-> IF Len(data) > 1 THEN data[2] ELSE NullSid,
          data |-> Tail2(data)]
    ELSE IF data[1] = UDS_NEGATIVE /\ Len(data) >= 3
    THEN [positive |-> FALSE, sid |-> data[2], nrc |-> data[3],
          error |-> UdsNrcDescription(data[3])]
    ELSE NoneResp

\* KWPProtocol._parse_kwp_response
ParseKwpResponse(data) ==
    IF Len(data) < 1 THEN NoneResp
    ELSE IF data[1] = KWP_POSITIVE
    THEN [positive |-> TRUE,
          sid |-> IF Len(data) > 1 THEN data[2] ELSE NullSid,
          data |-> Tail2(data)]
    ELSE IF data[1] = KWP_NEGATIVE /\ Len(data) >= 3
    THEN [positive |-> FALSE, sid |-> data[2], nrc |-> data[3],
          error |-> KwpNrcDescription(data[3])]
    ELSE NoneResp

\* `response and response.get('positive')`
IsPositive(resp) == resp # NoneResp /\ resp.positive

\* Any negative response taken for a time delay
IsNegative(resp) ==
    /\ resp # NoneResp
    /\ ~resp.positive

\* `response and response.get('nrc') == 0x37`
IsTimeDelay(resp) ==
    /\ resp # NoneResp
    /\ ~resp.positive
    /\ resp.nrc = NRC_TIME_DELAY

-----------------------------------------------------------------------------
(* Request encoders *)

\* A length-prefix choice with strict comparisons
FormatAddressStrict(address) ==
    IF address < 255 THEN <<1, address>>
    ELSE IF address < 65535
    THEN <<2, (address \div 256) % 256, address % 256>>
    ELSE IF address < 16777215
    THEN <<3, (address \div 65536) % 256, (address \div 256) % 256,
           address % 256>>
    ELSE <<4, (address \div 16777216) % 256, (address \div 65536) % 256,
           (address \div 256) % 256, address % 256>>

\* UDSProtocol._format_address
FormatAddress(address) ==
    IF address <= 255 THEN <<1, address>>
    ELSE IF address <= 65535
    THEN <<2, (address \div 256) % 256, address % 256>>
    ELSE IF address <= 16777215
    THEN <<3, (address \div 65536) % 256, (address \div 256) % 256,
           address % 256>>
    ELSE <<4, (address \div 16777216) % 256, (address \div 65536) % 256,
           (address \div 256) % 256, address % 256>>

\* UDSProtocol._format_size
FormatSize(size) ==
    IF size <= 255 THEN <<1, size>>
    ELSE IF size <= 65535
    THEN <<2, (size \div 256) % 256, size % 256>>
    ELSE IF size <= 16777215
    THEN <<3, (size \div 65536) % 256, (size \div 256) % 256, size % 256>>
    ELSE <<4, (size \div 16777216) % 256, (size \div 65536) % 256,
           (size \div 256) % 256, size % 256>>

\* KWPProtocol._format_address
KwpFormatAddress(address) ==
    IF address <= 255 THEN <<1, address>>
    ELSE IF address <= 65535
    THEN <<2, (address \div 256) % 256, address % 256>>
    ELSE IF address <= 16777215
    THEN <<3, (address \div 65536) % 256, (address \div 256) % 256,
           address % 256>>
    ELSE <<4, (address \div 16777216) % 256, (address \div 65536) % 256,
           (address \div 256) % 256, address % 256>>

\* KWPProtocol._format_size
KwpFormatSize(size) ==
    IF size <= 255 THEN <<1, size>>
    ELSE IF size <= 65535
    THEN <<2, (size \div 256) % 256, size % 256>>
    ELSE IF size <= 16777215
    THEN <<3, (size \div 65536) % 256, (size \div 256) % 256, size % 256>>
    ELSE <<4, (size \div 16777216) % 256, (size \div 65536) % 256,
           (size \div 256) % 256, size % 256>>

\* A request that puts the size before the address
UdsReadMemoryRequestSizeFirst(memory_address, size) ==
    <<UDS_SID_READ_MEMORY_BY_ADDRESS>> \o FormatSize(size)
        \o FormatAddress(memory_address)

\* UDSProtocol.read_memory_by_address: the request it builds
UdsReadMemoryRequest(memory_address, size) ==
    <<UDS_SID_READ_MEMORY_BY_ADDRESS>> \o FormatAddress(memory_address)
        \o FormatSize(size)

\* KWPProtocol.read_memory_by_address: the request it builds
KwpReadMemoryRequest(memory_address, size) ==
    <<KWP_SID_READ_MEMORY_BY_ADDRESS>> \o KwpFormatAddress(memory_address)
        \o KwpFormatSize(size)

\* A derivation that leaves the level out
DefaultSeedKeyNoLevel(seed, level) ==
    IF seed = <<>> THEN <<>>
    ELSE [i \in 1..Len(seed) |-> Xor(seed[i], 85)]

\* SecurityAccess._default_seed_key_algorithm; <<>> stands for None
DefaultSeedKeyAlgorithm(seed, level) ==
    IF seed = <<>> THEN <<>>
    ELSE [i \in 1..Len(seed) |-> Xor(Xor(seed[i], 85), level)]


-----------------------------------------------------------------------------
(* The vendor key derivations.  An unsigned 32-bit integer is the sequence *)
(* of its 4 bytes, most significant first; an integer that may have grown  *)
(* past 32 bits is the sequence of its 5 bytes.                            *)

\* int.from_bytes(seed[:4], 'big')
SeedInt(seed) == SubSeq(seed, 1, 4)

LevelInt(level) == <<0, 0, 0, level>>

\* (a ^ b) & 0xFFFFFFFF
XorInt(a, b) == [i \in 1..4 |-> Xor(a[i], b[i])]

\* a + b, not masked
AddInt(a, b) ==
    LET s0 == a[4] + b[4]
        s1 == a[3] + b[3] + (s0 \div 256)
        s2 == a[2] + b[2] + (s1 \div 256)
        s3 == a[1] + b[1] + (s2 \div 256)
    IN <<s3 \div 256, s3 % 256, s2 % 256, s1 % 256, s0 % 256>>

\* x & 0xFFFFFFFF
Mask32(x) == SubSeq(x, Len(x) - 3, Len(x))

\* (a * b) & 0xFFFFFFFF
MulMasked(a, b) ==
    LET c0 == a[4] * b[4]
        c1 == a[4] * b[3] + a[3] * b[4] + (c0 \div 256)
        c2 == a[4] * b[2] + a[3] * b[3] + a[2] * b[4] + (c1 \div 256)
        c3 == a[4] * b[1] + a[3] * b[2] + a[2] * b[3] + a[1] * b[4]
                + (c2 \div 256)
    IN <<c3 % 256, c2 % 256, c1 % 256, c0 % 256>>

IntBits(a) ==
    [i \in 1..32 |-> (a[((i - 1) \div 8) + 1] \div (2 ^ (7 - ((i - 1) % 8)))) % 2]

BitsInt(bits) ==
    [k \in 1..4 |->
        LET o == 8 * (k - 1)
        IN 128 * bits[o + 1] + 64 * bits[o + 2] + 32 * bits[o + 3]
             + 16 * bits[o + 4] + 8 * bits[o + 5] + 4 * bits[o + 6]
             + 2 * bits[o + 7] + bits[o + 8]]

\* ((a << left) | (a >> right)) & 0xFFFFFFFF
ShiftOr(a, left, right) ==
    LET bits == IntBits(a)
        shl(i) == IF i + left <= 32 THEN bits[i + left] ELSE 0
        shr(i) == IF i - right >= 1 THEN bits[i - right] ELSE 0
    IN BitsInt([i \in 1..32 |-> IF shl(i) = 1 \/ shr(i) = 1 THEN 1 ELSE 0])

\* key_int.to_bytes(4, 'big') inside the try block: OverflowError, hence None
\* (<<>>), when the integer does not fit in 4 bytes
ToBytes4(x) ==
    IF Len(x) > 4 /\ x[1] # 0 THEN <<>> ELSE Mask32(x)

BmwSeedKeyAlgorithm(seed, level) ==
    IF Len(seed) < 4 THEN <<>>
    ELSE LET seed_int == SeedInt(seed)
             key_int == Mask32(AddInt(MulMasked(seed_int, <<18, 52, 86, 120>>),
                                      <<135, 101, 67, 33>>))
         IN ToBytes4(XorInt(key_int, LevelInt(level)))

AudiSeedKeyAlgorithm(seed, level) ==
    IF Len(seed) < 4 THEN <<>>
    ELSE LET seed_int == SeedInt(seed)
             key_int == Mask32(AddInt(seed_int, <<18, 52, 86, 120>>))
         IN ToBytes4(XorInt(ShiftOr(key_int, 3, 29), LevelInt(level)))

MercedesSeedKeyAlgorithm(seed, level) ==
    IF Len(seed) < 4 THEN <<>>
    ELSE LET seed_int == SeedInt(seed)
             key_int == MulMasked(seed_int, <<35, 69, 103, 137>>)
         IN ToBytes4(XorInt(ShiftOr(key_int, 7, 25), LevelInt(level)))

VolkswagenSeedKeyAlgorithm(seed, level) ==
    IF Len(seed) < 4 THEN <<>>
    ELSE LET seed_int == SeedInt(seed)
             key_int == XorInt(seed_int, <<52, 86, 120, 144>>)
         IN ToBytes4(AddInt(ShiftOr(key_int, 5, 27), LevelInt(level)))

ToyotaSeedKeyAlgorithm(seed, level) ==
    IF Len(seed) < 4 THEN <<>>
    ELSE LET seed_int == SeedInt(seed)
             key_int == Mask32(AddInt(seed_int, <<69, 103, 137, 1>>))
         IN ToBytes4(XorInt(ShiftOr(key_int, 11, 21), LevelInt(level)))

HondaSeedKeyAlgorithm(seed, level) ==
    IF Len(seed) < 4 THEN <<>>
    ELSE LET seed_int == SeedInt(seed)
             key_int == MulMasked(seed_int, <<86, 120, 144, 18>>)
         IN ToBytes4(AddInt(ShiftOr(key_int, 13, 19), LevelInt(level)))

FordSeedKeyAlgorithm(seed, level) ==
    IF Len(seed) < 4 THEN <<>>
    ELSE LET seed_int == SeedInt(seed)
             key_int == XorInt(seed_int, <<103, 137, 1, 35>>)
         IN ToBytes4(XorInt(ShiftOr(key_int, 17, 15), LevelInt(level)))

GmSeedKeyAlgorithm(seed, level) ==
    IF Len(seed) < 4 THEN <<>>
    ELSE LET seed_int == SeedInt(seed)
             key_int == Mask32(AddInt(seed_int, <<120, 144, 18, 52>>))
         IN ToBytes4(AddInt(ShiftOr(key_int, 19, 13), LevelInt(level)))

\* SecurityAccess.seed_key_algorithms: the vendor entries of the registry
VendorNames ==
    {"bmw", "audi", "mercedes", "volkswagen", "toyota", "honda", "ford", "gm"}

SeedKeyAlgorithm(name, seed, level) ==
    CASE name = "bmw" -> BmwSeedKeyAlgorithm(seed, level)
      [] name = "audi" -> AudiSeedKeyAlgorithm(seed, level)
      [] name = "mercedes" -> MercedesSeedKeyAlgorithm(seed, level)
      [] name = "volkswagen" -> VolkswagenSeedKeyAlgorithm(seed, level)
      [] name = "toyota" -> ToyotaSeedKeyAlgorithm(seed, level)
      [] name = "honda" -> HondaSeedKeyAlgorithm(seed, level)
      [] name = "ford" -> FordSeedKeyAlgorithm(seed, level)
      [] name = "gm" -> GmSeedKeyAlgorithm(seed, level)
      [] OTHER -> DefaultSeedKeyAlgorithm(seed, level)

-----------------------------------------------------------------------------
(* Values the environment draws from *)

NoEcu == [none |-> TRUE]
NoTx == [id |-> 0, data |-> <<>>]
NoReq == [address |-> -1, size |-> 0]
Unset == [unset |-> TRUE]
NoFile == [written |-> FALSE, bytes |-> <<>>]
NoCall == [tx |-> 0, sent |-> FALSE, rx |-> 0, frame |-> <<>>,
           returned |-> NoneResp]

Protocols == {"UDS", "KWP", "CAN"}
EcuAddresses == {2024}                \* 0x7E8
StartAddresses == {0, 254}

\* ECUInfo as produced by discovery: identification fields still empty
EcuDescriptors ==
    [protocol : Protocols, address : EcuAddresses, vin : {<<>>},
     manufacturer : {<<>>}]

\* Payloads an ECU may put in a positive response
Payloads == {<<>>, <<170>>, <<187, 204>>}

PositiveByte(protocol) == IF protocol = "UDS" THEN UDS_POSITIVE ELSE KWP_POSITIVE
NegativeByte(protocol) == IF protocol = "UDS" THEN UDS_NEGATIVE ELSE KWP_NEGATIVE
SecuritySid(protocol) ==
    IF protocol = "UDS" THEN UDS_SID_SECURITY_ACCESS ELSE KWP_SID_SECURITY_ACCESS
ReadMemorySid(protocol) ==
    IF protocol = "UDS" THEN UDS_SID_READ_MEMORY_BY_ADDRESS
    ELSE KWP_SID_READ_MEMORY_BY_ADDRESS

\* Frames the ECU may answer to a security-access request
SecurityReplies(protocol) ==
    LET p == PositiveByte(protocol)
        n == NegativeByte(protocol)
        s == SecuritySid(protocol)
    IN {<<p, s, 17>>, <<p, s>>, <<n, s, NRC_TIME_DELAY>>, <<n, s, 53>>}

\* Frames the ECU may answer to a memory-read request: the frames the parser
\* takes as positive, a negative response, and the ISO 14229 framing of a
\* positive response, SID + 0x40 (64) first
ReadReplies(protocol) ==
    LET p == PositiveByte(protocol)
        n == NegativeByte(protocol)
        s == ReadMemorySid(protocol)
    IN {<<p, s>> \o d : d \in Payloads}
         \cup {<<n, s, 49>>, <<s + 64, 170>>}

\* Frames the ECU may answer to ReadDataByIdentifier
IdentReplies ==
    {<<UDS_POSITIVE, UDS_SID_READ_DATA_BY_IDENTIFIER, 87>>,
     <<UDS_NEGATIVE, UDS_SID_READ_DATA_BY_IDENTIFIER, 49>>}

ParseResponse(protocol, data) ==
    IF protocol = "UDS" THEN ParseUdsResponse(data) ELSE ParseKwpResponse(data)

-----------------------------------------------------------------------------
(* Initial state: ECUManger.__init__ *)

InitManager ==
    /\ can_bus = "none"
    /\ uds_protocol = FALSE
    /\ kwp_protocol = FALSE
    /\ init_result = "none"
    /\ selected_ecu = NoEcu
    /\ bin_data = <<>>
    /\ read_progress = [bytes_read |-> 0, total_bytes |-> 0,
                        current_address |-> 0, status |-> "idle",
                        error_message |-> ""]
    /\ pc = "idle"
    /\ awaiting = FALSE
    /\ start_address = 0
    /\ end_address = 0
    /\ current_address = 0
    /\ level_ix = 1
    /\ key = <<>>
    /\ result = "none"
    /\ last_tx = NoTx
    /\ run = 0
    /\ bin_run = <<>>
    /\ sec_result = "none"
    /\ last_block = "none"
    /\ last_req = NoReq
    /\ sec_log = <<>>
    /\ negotiated = FALSE
    /\ discovered_ecus = <<>>
    /\ scan_pc = "idle"
    /\ scan_address = ScanFirst
    /\ probed = <<>>
    /\ probe_log = [address |-> ScanFirst, probes |-> <<>>]
    /\ answered = {}
    /\ cancel_requested = FALSE
    /\ saved = NoFile
    /\ save_result = "none"
    /\ received = <<>>
    /\ seen = Unset
    /\ read_block = <<>>
    /\ select_result = "none"
    /\ ident_log = <<>>
    /\ run_log = <<>>
    /\ first_run = Unset
    /\ call = NoCall
    /\ seed_key_algorithms = [n \in VendorNames \cup {"default"} |-> n]

Init == InitManager /\ fn_in = Unset /\ fn_out = Unset

connVars == <<can_bus, uds_protocol, kwp_protocol, init_result,
              select_result>>
fnVars == <<fn_in, fn_out>>
managerVars == <<can_bus, uds_protocol, kwp_protocol, init_result,
                 selected_ecu, bin_data,
                 read_progress, pc, awaiting, start_address, end_address,
                 current_address, level_ix, key, result, last_tx, run,
                 bin_run, sec_result, last_block, last_req, sec_log,
                 negotiated, discovered_ecus, scan_pc, scan_address, probed,
                 probe_log, answered, cancel_requested, saved, save_result,
                 received, seen, read_block, select_result, ident_log,
                 run_log, first_run, call, seed_key_algorithms>>
secHistory == <<sec_log, negotiated>>
scanVars == <<discovered_ecus, scan_pc, scan_address, probed, probe_log,
              answered>>
\* Variables that only the specifications of one operation write
auditVars == <<ident_log, run_log, first_run, call, seed_key_algorithms>>
hostVars == <<cancel_requested, saved, save_result, received, seen,
              read_block, auditVars>>
saveVars == <<saved, save_result>>
readVars == <<bin_data, read_progress, pc, awaiting, start_address,
              end_address, current_address, level_ix, key, result, run,
              bin_run, sec_result, last_block, last_req>>

-----------------------------------------------------------------------------
(* Facade operations the host calls from its own thread *)

\* ECUManger.initialize_communication; the host connects only while the
\* transport is not open
\* An initialize_communication that makes the encoders before it connects
InitializeCommunicationAttaching ==
    /\ can_bus # "open"
    /\ uds_protocol' = TRUE
    /\ kwp_protocol' = TRUE
    /\ \E connected \in BOOLEAN :
         IF connected
         THEN can_bus' = "open" /\ init_result' = "true"
         ELSE can_bus' = "closed" /\ init_result' = "false"
    /\ UNCHANGED <<select_result, selected_ecu, last_tx, readVars, fnVars>>

\* connected: what CANBus.connect returns
InitializeCommunication ==
    /\ can_bus # "open"
    /\ \E connected \in BOOLEAN :
         IF connected
         THEN /\ can_bus' = "open"
              /\ uds_protocol' = TRUE
              /\ kwp_protocol' = TRUE
              /\ init_result' = "true"
         ELSE /\ can_bus' = "closed"
              /\ init_result' = "false"
              /\ UNCHANGED <<uds_protocol, kwp_protocol>>
    /\ UNCHANGED <<select_result, selected_ecu, last_tx, readVars, fnVars>>

\* A disconnect that also puts the progress record back to idle
DisconnectResetting ==
    /\ can_bus' = IF can_bus = "none" THEN "none" ELSE "closed"
    /\ read_progress' = [bytes_read |-> 0, total_bytes |-> 0,
                         current_address |-> 0, status |-> "idle",
                         error_message |-> ""]
    /\ UNCHANGED <<uds_protocol, kwp_protocol, init_result, select_result,
                   selected_ecu,
                   last_tx, bin_data, pc, awaiting, start_address, end_address,
                   current_address, level_ix, key, result, run, bin_run,
                   sec_result, last_block, last_req, fnVars>>

\* A disconnect that leaves the bus as it is
DisconnectKeepingBus ==
    /\ can_bus' = can_bus
    /\ UNCHANGED <<uds_protocol, kwp_protocol, init_result, select_result,
                   selected_ecu, last_tx, readVars, fnVars>>

\* ECUManger.disconnect with CANBus.disconnect
Disconnect ==
    /\ can_bus' = IF can_bus = "none" THEN "none" ELSE "closed"
    /\ UNCHANGED <<uds_protocol, kwp_protocol, init_result, select_result,
                   selected_ecu,
                   last_tx, readVars, fnVars>>

IdentFrame(did) ==
    <<UDS_SID_READ_DATA_BY_IDENTIFIER, (did \div 256) % 256, did % 256>>

IdentData(resp) == IF IsPositive(resp) THEN resp.data ELSE <<>>

\* A select_ecu that stores whatever an identification read gave, nothing
\* when it failed
SelectEcuWithClearing(e, t1, f1, t2, f2) ==
    /\ select_result' = "true"
    /\ IF e.protocol = "UDS" /\ uds_protocol
       THEN LET r1 == IF t1 THEN ParseUdsResponse(f1) ELSE NoneResp
                r2 == IF t2 THEN ParseUdsResponse(f2) ELSE NoneResp
            IN /\ selected_ecu' = [e EXCEPT !.vin = IdentData(r1),
                                            !.manufacturer = IdentData(r2)]
               /\ last_tx' =
                    IF t2 THEN [id |-> e.address, data |-> IdentFrame(61831)]
                    ELSE IF t1
                    THEN [id |-> e.address, data |-> IdentFrame(61840)]
                    ELSE last_tx
       ELSE /\ selected_ecu' = e
            /\ UNCHANGED last_tx
    /\ UNCHANGED <<can_bus, uds_protocol, kwp_protocol, init_result,
                   readVars, fnVars>>

\* ECUManger.select_ecu with _get_ecu_details: two ReadDataByIdentifier calls
\* for a UDS ECU, each a transmit (t1, t2: it succeeded) and a receive (f1,
\* f2: the frame received, <<>> at the timeout).  A field of the descriptor
\* is assigned only when its read is answered positively (lines 187-188,
\* 194-195); the descriptor is the caller's object and is kept as it is
\* otherwise.
SelectEcuWith(e, t1, f1, t2, f2) ==
    /\ select_result' = "true"
    /\ IF e.protocol = "UDS" /\ uds_protocol
       THEN LET r1 == IF t1 THEN ParseUdsResponse(f1) ELSE NoneResp
                r2 == IF t2 THEN ParseUdsResponse(f2) ELSE NoneResp
            IN /\ selected_ecu' =
                    [e EXCEPT !.vin = IF IsPositive(r1) THEN r1.data ELSE @,
                              !.manufacturer =
                                  IF IsPositive(r2) THEN r2.data ELSE @]
               /\ last_tx' =
                    IF t2 THEN [id |-> e.address, data |-> IdentFrame(61831)]
                    ELSE IF t1
                    THEN [id |-> e.address, data |-> IdentFrame(61840)]
                    ELSE last_tx
       ELSE /\ selected_ecu' = e
            /\ UNCHANGED last_tx
    /\ UNCHANGED <<can_bus, uds_protocol, kwp_protocol, init_result,
                   readVars, fnVars>>

\* t: whether send_message succeeds, which it does only on an open bus
SendOutcomes == {b \in BOOLEAN : b => can_bus = "open"}

SelectEcu(e) ==
    IF e.protocol = "UDS" /\ uds_protocol
    THEN \E t1, t2 \in SendOutcomes :
         \E f1, f2 \in IdentReplies \cup {<<>>} :
             SelectEcuWith(e, t1, f1, t2, f2)
    ELSE SelectEcuWith(e, FALSE, <<>>, FALSE, <<>>)

-----------------------------------------------------------------------------
(* read_bin_file: the call, then one step per transmit and per receive *)

\* Any attached encoder taken for the encoder of the ECU, whatever its
\* protocol
HasProtocolAny(ecu) == uds_protocol \/ kwp_protocol

\* `self.selected_ecu.protocol == "UDS" and self.uds_protocol`, or KWP
HasProtocol(ecu) ==
    \/ ecu.protocol = "UDS" /\ uds_protocol
    \/ ecu.protocol = "KWP" /\ kwp_protocol

Level == SecurityLevels[level_ix]
SeedLevel(level) == IF level % 2 = 1 THEN level ELSE level - 1

\* A key reply under the level itself
KeyLevelSame(level) == level

KeyLevel(level) == IF level % 2 = 0 THEN level ELSE level + 1

\* Variant of Advance: the loop advances by the size it asked for
AdvanceByRequested(block_data, size) == size

\* What the loop adds to current_address after a block (line 246), given
\* the block's bytes and the size that was requested
Advance(block_data, size) == Len(block_data)

\* The size _read_memory_block asks for: its default block_size, whatever
\* is left of the range
RequestSize(current, end) == BlockSize

\* read_bin_file from line 235 on, up to the first memory-read request:
\* the buffer is replaced, and the loop is entered.  Without a protocol
\* encoder _read_memory_block returns None at once and the loop breaks.
BeginLoop(s, e, prog) ==
    /\ bin_data' = <<>>
    /\ bin_run' = <<>>
    /\ current_address' = s
    /\ sec_result' = "ok"
    /\ awaiting' = FALSE
    /\ level_ix' = 1
    /\ key' = <<>>
    /\ IF s < e /\ HasProtocol(selected_ecu)
       THEN /\ pc' = "read"
            /\ read_progress' = prog
            /\ result' = "running"
            /\ last_block' = "none"
       ELSE /\ pc' = "idle"
            /\ read_progress' = [prog EXCEPT !.status = "complete"]
            /\ result' = "true"
            /\ last_block' = IF s < e THEN "unread" ELSE "none"

\* read_bin_file from line 215 on, an ECU being selected: the progress
\* record is replaced and security access begins
StartRead(s, e) ==
    LET prog == [bytes_read |-> 0, total_bytes |-> e - s,
                 current_address |-> s, status |-> "reading",
                 error_message |-> ""]
    IN /\ start_address' = s
       /\ end_address' = e
       /\ last_req' = NoReq
       /\ IF HasProtocol(selected_ecu)
          THEN /\ pc' = "seed"
               /\ read_progress' = prog
               /\ result' = "running"
               /\ level_ix' = 1
               /\ key' = <<>>
               /\ awaiting' = FALSE
               /\ sec_result' = "none"
               /\ last_block' = "none"
               /\ current_address' = s
               /\ UNCHANGED <<bin_data, bin_run>>
          ELSE BeginLoop(s, e, prog)

\* A read_bin_file that replaces the progress record before it looks for
\* the selected ECU
ReadBinFileCallResetting(s, e) ==
    /\ pc = "idle"
    /\ run' = run + 1
    /\ IF selected_ecu = NoEcu
       THEN /\ result' = "false"
            /\ read_progress' =
                 [bytes_read |-> 0, total_bytes |-> e - s,
                  current_address |-> s, status |-> "reading",
                  error_message |-> ""]
            /\ UNCHANGED <<bin_data, pc, awaiting,
                           start_address, end_address, current_address,
                           level_ix, key, bin_run, sec_result, last_block,
                           last_req>>
       ELSE StartRead(s, e)
    /\ UNCHANGED <<connVars, selected_ecu, last_tx, fnVars>>

\* ECUManger.read_bin_file, up to its first transmit
ReadBinFileCall(s, e) ==
    /\ pc = "idle"
    /\ run' = run + 1
    /\ IF selected_ecu = NoEcu
       THEN /\ result' = "false"
            /\ UNCHANGED <<bin_data, read_progress, pc, awaiting,
                           start_address, end_address, current_address,
                           level_ix, key, bin_run, sec_result, last_block,
                           last_req>>
       ELSE StartRead(s, e)
    /\ UNCHANGED <<connVars, selected_ecu, last_tx, fnVars>>

\* At most MaxRuns calls in a behaviour
ReadBinFile(s, e) == run < MaxRuns /\ ReadBinFileCall(s, e)

\* A negotiation that goes on to the memory read when every level failed
NextLevelReading ==
    IF level_ix < Len(SecurityLevels)
    THEN /\ awaiting' = FALSE
         /\ key' = <<>>
         /\ pc' = "seed"
         /\ level_ix' = level_ix + 1
         /\ UNCHANGED <<bin_data, bin_run, read_progress, result,
                        current_address, sec_result, last_block>>
    ELSE BeginLoop(start_address, end_address, read_progress)

\* SecurityAccess.perform_*_security_access: the next level of the list, or
\* failure of security access and of read_bin_file (line 232)
NextLevel ==
    /\ awaiting' = FALSE
    /\ key' = <<>>
    /\ IF level_ix < Len(SecurityLevels)
       THEN /\ pc' = "seed"
            /\ level_ix' = level_ix + 1
            /\ UNCHANGED <<bin_data, bin_run, read_progress, result,
                           current_address, sec_result, last_block>>
       ELSE /\ pc' = "idle"
            /\ level_ix' = 1
            /\ sec_result' = "failed"
            /\ result' = "false"
            /\ UNCHANGED <<bin_data, bin_run, read_progress,
                           current_address, last_block>>

\* What the caller of a service call does with its response
OnResponse(resp) ==
    CASE pc = "seed" ->
           \* _perform_security_level, lines 114-131
           IF IsPositive(resp) /\ resp.data # <<>>
              /\ DefaultSeedKeyAlgorithm(resp.data, Level) # <<>>
           THEN /\ pc' = "key"
                /\ key' = DefaultSeedKeyAlgorithm(resp.data, Level)
                /\ awaiting' = FALSE
                /\ UNCHANGED <<bin_data, bin_run, read_progress, result,
                               current_address, level_ix, sec_result,
                               last_block>>
           ELSE NextLevel
      [] pc = "key" ->
           \* lines 134-143
           IF IsPositive(resp)
           THEN BeginLoop(start_address, end_address, read_progress)
           ELSE IF IsTimeDelay(resp)
           THEN /\ pc' = "retry"
                /\ awaiting' = FALSE
                /\ UNCHANGED <<bin_data, bin_run, read_progress, result,
                               current_address, level_ix, key, sec_result,
                               last_block>>
           ELSE NextLevel
      [] pc = "retry" ->
           \* line 141
           IF IsPositive(resp)
           THEN BeginLoop(start_address, end_address, read_progress)
           ELSE NextLevel
      [] pc = "read" ->
           \* read_bin_file, lines 240-257
           /\ awaiting' = FALSE
           /\ UNCHANGED <<level_ix, key, sec_result>>
           /\ IF IsPositive(resp)
              THEN LET buf == bin_data \o resp.data
                       cur == current_address
                                + Advance(resp.data, last_req.size)
                       prog == [read_progress EXCEPT
                                  !.bytes_read = Len(buf),
                                  !.current_address = cur]
                   IN /\ bin_data' = buf
                      /\ bin_run' = bin_run \o [i \in 1..Len(resp.data) |-> run]
                      /\ current_address' = cur
                      /\ last_block' = "ok"
                      /\ IF cur < end_address
                         THEN /\ pc' = "read"
                              /\ read_progress' = prog
                              /\ UNCHANGED result
                         ELSE /\ pc' = "idle"
                              /\ read_progress' =
                                   [prog EXCEPT !.status = "complete"]
                              /\ result' = "true"
              ELSE /\ pc' = "idle"
                   /\ last_block' = "failed"
                   /\ read_progress' =
                        [read_progress EXCEPT !.status = "complete"]
                   /\ result' = "true"
                   /\ UNCHANGED <<bin_data, bin_run, current_address>>

\* The frame the pending service call transmits
RequestFrame ==
    LET p == selected_ecu.protocol IN
    CASE pc = "seed" -> <<SecuritySid(p), SeedLevel(Level)>>
      [] pc \in {"key", "retry"} -> <<SecuritySid(p), KeyLevel(Level)>> \o key
      [] pc = "read" ->
           IF p = "UDS"
           THEN UdsReadMemoryRequest(current_address,
                    RequestSize(current_address, end_address))
           ELSE KwpReadMemoryRequest(current_address,
                    RequestSize(current_address, end_address))

\* A service call that sends its frame again while it waits for the answer
TransmitRetrying ==
    /\ pc # "idle"
    /\ can_bus = "open"
    /\ last_tx' = [id |-> selected_ecu.address, data |-> RequestFrame]
    /\ awaiting' = TRUE
    /\ last_req' =
         IF pc = "read"
         THEN [address |-> current_address,
               size |-> RequestSize(current_address, end_address)]
         ELSE last_req
    /\ UNCHANGED <<bin_data, read_progress, pc, start_address,
                   end_address, current_address, level_ix, key, result,
                   run, bin_run, sec_result, last_block>>
    /\ UNCHANGED <<connVars, selected_ecu, fnVars>>

\* _send_uds_message / _send_kwp_message up to CANBus.send_message: the frame
\* goes out and the call blocks in receive_message
Transmit ==
    /\ pc # "idle"
    /\ ~awaiting
    /\ can_bus = "open"
    /\ last_tx' = [id |-> selected_ecu.address, data |-> RequestFrame]
    /\ awaiting' = TRUE
    /\ last_req' =
         IF pc = "read"
         THEN [address |-> current_address,
               size |-> RequestSize(current_address, end_address)]
         ELSE last_req
    /\ UNCHANGED <<bin_data, read_progress, pc, start_address,
                   end_address, current_address, level_ix, key, result,
                   run, bin_run, sec_result, last_block>>
    /\ UNCHANGED <<connVars, selected_ecu, fnVars>>

\* send_message returns False (bus not connected, or bus.send raised) and the
\* service call yields None
TransmitFails ==
    /\ pc # "idle"
    /\ ~awaiting
    /\ OnResponse(NoneResp)
    /\ UNCHANGED <<last_tx, last_req, start_address, end_address, run>>
    /\ UNCHANGED <<connVars, selected_ecu, fnVars>>

SendRequest == Transmit \/ TransmitFails

\* What receive_message may return to the pending call, parsed: None at the
\* timeout, or one of the frames the ECU may answer
Replies ==
    {NoneResp} \cup
    {ParseResponse(selected_ecu.protocol, f) :
       f \in (IF pc = "read" THEN ReadReplies(selected_ecu.protocol)
              ELSE SecurityReplies(selected_ecu.protocol))}

\* A receive that shuts the transport down when nothing arrives
ReceiveClosing(resp) ==
    /\ awaiting
    /\ OnResponse(resp)
    /\ can_bus' = IF resp = NoneResp THEN "closed" ELSE can_bus
    /\ UNCHANGED <<uds_protocol, kwp_protocol, init_result, select_result,
                   selected_ecu,
                   last_tx, last_req, start_address, end_address, run,
                   fnVars>>

\* The pending call returns resp to its caller
Receive(resp) ==
    /\ awaiting
    /\ OnResponse(resp)
    /\ UNCHANGED <<connVars, selected_ecu, last_tx, last_req, start_address,
                   end_address, run, fnVars>>

\* CANBus.receive_message returns a frame, which is parsed, or None on timeout
ReceiveResponse == awaiting /\ \E resp \in Replies : Receive(resp)

-----------------------------------------------------------------------------
(* The facade used from one thread: an operation is called only after the  *)
(* one before it has returned                                              *)

Ranges ==
    {<<s, e>> \in StartAddresses \X (-1..(254 + MaxRange)) :
        e - s \in -1..MaxRange}

Next ==
    \/ /\ pc = "idle"
       /\ InitializeCommunication
       /\ UNCHANGED <<secHistory, scanVars, hostVars>>
    \/ pc = "idle" /\ Disconnect /\ UNCHANGED <<secHistory, scanVars, hostVars>>
    \/ \E e \in EcuDescriptors :
         /\ pc = "idle"
         /\ SelectEcu(e)
         /\ UNCHANGED <<secHistory, scanVars, hostVars>>
    \/ \E r \in Ranges :
         ReadBinFile(r[1], r[2]) /\ UNCHANGED <<secHistory, scanVars, hostVars>>
    \/ SendRequest /\ UNCHANGED <<secHistory, scanVars, hostVars>>
    \/ ReceiveResponse /\ UNCHANGED <<secHistory, scanVars, hostVars>>

Spec == Init /\ [][Next]_vars

\* The worker thread runs read_bin_file on: a pending transmit is made, and
\* a pending receive returns (a frame, or None at the timeout)
FairSpec ==
    /\ Spec
    /\ WF_vars(SendRequest /\ UNCHANGED <<secHistory, scanVars, hostVars>>)
    /\ WF_vars(ReceiveResponse /\ UNCHANGED <<secHistory, scanVars, hostVars>>)

-----------------------------------------------------------------------------
(* The facade with a record of the security-access frames: the same        *)
(* actions, one read_bin_file call over one range, and sec_log written at  *)
(* every transmit and every return of a security-access call               *)

SecurityPcs == {"seed", "key", "retry"}

\* What the caller of send_security_access can tell of its return value
AnswerClass(kind, resp) ==
    IF kind = "seed"
    THEN IF resp # NoneResp /\ resp.positive /\ resp.data # <<>>
         THEN "seed" ELSE "no seed"
    ELSE IF resp # NoneResp /\ resp.positive THEN "accepted"
    ELSE IF resp # NoneResp /\ resp.nrc = 55 THEN "delay"
    ELSE "rejected"

LogRequest ==
    sec_log' =
      IF pc \in SecurityPcs
      THEN Append(sec_log,
                  [level |-> Level, kind |-> pc, sub |-> RequestFrame[2],
                   key |-> SubSeq(RequestFrame, 3, Len(RequestFrame)),
                   answer |-> "pending"])
      ELSE sec_log

LogAnswer(resp) ==
    sec_log' =
      IF pc \in SecurityPcs
      THEN [sec_log EXCEPT ![Len(sec_log)].answer = AnswerClass(pc, resp)]
      ELSE sec_log

LoggedReadBinFile(s, e) ==
    /\ ReadBinFile(s, e)
    /\ sec_log' = IF selected_ecu = NoEcu THEN sec_log ELSE <<>>
    /\ negotiated' = IF selected_ecu = NoEcu THEN negotiated
                     ELSE pc' \in SecurityPcs

SecurityNext ==
    \/ /\ run = 0
       /\ InitializeCommunication
       /\ UNCHANGED <<secHistory, scanVars, hostVars>>
    \/ run = 0 /\ Disconnect /\ UNCHANGED <<secHistory, scanVars, hostVars>>
    \/ \E e \in EcuDescriptors :
         /\ run = 0
         /\ SelectEcu(e)
         /\ UNCHANGED <<secHistory, scanVars, hostVars>>
    \/ run = 0 /\ LoggedReadBinFile(0, 1) /\ UNCHANGED <<scanVars, hostVars>>
    \/ /\ Transmit
       /\ LogRequest
       /\ UNCHANGED <<negotiated, scanVars, hostVars>>
    \/ TransmitFails /\ UNCHANGED <<secHistory, scanVars, hostVars>>
    \/ awaiting /\ \E resp \in Replies :
          /\ Receive(resp)
          /\ LogAnswer(resp)
          /\ UNCHANGED <<negotiated, scanVars, hostVars>>

SecuritySpec == Init /\ [][SecurityNext]_vars

-----------------------------------------------------------------------------
(* Discovery: scan_ecus, one step per probe of _probe_ecu.  A probe is a   *)
(* whole service call, its transmit and its receive.                       *)

\* Addresses at which an ECU may answer: the first and the second of the
\* sweep, 0x7E8, and the last
ScanResponders == {2016, 2017, 2024, 2031}

\* ECUInfo(ecu_id, protocol, address), identification fields empty
Descriptor(protocol, address) ==
    [protocol |-> protocol, address |-> address, vin |-> <<>>,
     manufacturer |-> <<>>]

\* Frames an ECU may answer to DiagnosticSessionControl: the one the parser
\* takes as positive, a negative response, and the ISO 14229 positive
\* response 0x50
UdsProbeReplies ==
    {<<UDS_POSITIVE, UDS_SID_DIAGNOSTIC_SESSION_CONTROL, 1>>,
     <<UDS_NEGATIVE, UDS_SID_DIAGNOSTIC_SESSION_CONTROL, 34>>,
     <<UDS_SID_DIAGNOSTIC_SESSION_CONTROL + 64, 1>>}

\* Frames an ECU may answer to StartCommunication
KwpProbeReplies ==
    {<<KWP_POSITIVE, 239, 143>>,
     <<KWP_NEGATIVE, KWP_SID_START_COMMUNICATION, 17>>}

\* Frames an ECU may answer to the raw message: some data, or none
CanProbeReplies == {<<65, 0>>, <<>>}

\* What one probe's transmit and receive come to: the frame was not sent
\* (bus not connected, or bus.send raised), or it was sent and the receive
\* timed out, or it was sent and one of the frames came back
ProbeOutcomes(frames) ==
    {[sent |-> FALSE, got |-> FALSE, frame |-> <<>>]}
      \cup (IF can_bus = "open"
            THEN {[sent |-> TRUE, got |-> FALSE, frame |-> <<>>]}
                   \cup (IF scan_address \in ScanResponders
                         THEN {[sent |-> TRUE, got |-> TRUE, frame |-> f] :
                                 f \in frames}
                         ELSE {})
            ELSE {})

\* The probes sent to scan_address so far
ProbesSoFar ==
    IF probe_log.address = scan_address /\ scan_pc # "uds"
    THEN probe_log.probes ELSE <<>>

LogProbe(o, name, counts) ==
    probe_log' =
      [address |-> scan_address,
       probes |-> IF o.sent
                  THEN Append(ProbesSoFar, [probe |-> name, positive |-> counts])
                  ELSE ProbesSoFar]

\* _probe_ecu returns: scan_ecus appends the descriptor if there is one, and
\* goes on to the next address or returns
ProbeReturns(found, protocol) ==
    /\ discovered_ecus' =
         IF found
         THEN Append(discovered_ecus, Descriptor(protocol, scan_address))
         ELSE discovered_ecus
    /\ answered' =
         IF found
         THEN answered \cup {[address |-> scan_address, probe |-> protocol]}
         ELSE answered
    /\ IF scan_address < ScanLast
       THEN scan_address' = scan_address + 1 /\ scan_pc' = "uds"
       ELSE scan_address' = scan_address /\ scan_pc' = "idle"

\* A scan_ecus that does not clear the list
ScanEcusKeeping ==
    /\ scan_pc = "idle"
    /\ discovered_ecus' = discovered_ecus
    /\ scan_address' = ScanFirst
    /\ scan_pc' = "uds"
    /\ probed' = <<>>
    /\ probe_log' = [address |-> ScanFirst, probes |-> <<>>]
    /\ answered' = {}
    /\ UNCHANGED <<connVars, selected_ecu, last_tx, readVars, secHistory,
                   fnVars>>

\* ECUManger.scan_ecus, up to its first call of _probe_ecu
ScanEcus ==
    /\ scan_pc = "idle"
    /\ discovered_ecus' = <<>>
    /\ scan_address' = ScanFirst
    /\ scan_pc' = "uds"
    /\ probed' = <<>>
    /\ probe_log' = [address |-> ScanFirst, probes |-> <<>>]
    /\ answered' = {}
    /\ UNCHANGED <<connVars, selected_ecu, last_tx, readVars, secHistory,
                   fnVars>>

\* _probe_ecu, lines 118-129: UDS DiagnosticSessionControl(default)
ProbeUds ==
    /\ scan_pc = "uds"
    /\ probed' = Append(probed, scan_address)
    /\ IF uds_protocol
       THEN \E o \in ProbeOutcomes(UdsProbeReplies) :
              LET resp == IF o.got THEN ParseUdsResponse(o.frame)
                          ELSE NoneResp
              IN /\ LogProbe(o, "UDS", resp # NoneResp /\ resp.positive)
                 /\ last_tx' =
                      IF o.sent
                      THEN [id |-> scan_address,
                            data |-> <<UDS_SID_DIAGNOSTIC_SESSION_CONTROL, 1>>]
                      ELSE last_tx
                 /\ IF IsPositive(resp)
                    THEN ProbeReturns(TRUE, "UDS")
                    ELSE /\ scan_pc' = "kwp"
                         /\ UNCHANGED <<discovered_ecus, scan_address,
                                        answered>>
       ELSE /\ scan_pc' = "kwp"
            /\ probe_log' = [address |-> scan_address, probes |-> <<>>]
            /\ UNCHANGED <<discovered_ecus, scan_address, answered, last_tx>>
    /\ UNCHANGED <<connVars, selected_ecu, readVars, secHistory, fnVars>>

\* A KWP probe that takes any parsed response for success
ProbeKwpAnyResponse ==
    /\ scan_pc = "kwp"
    /\ IF kwp_protocol
       THEN \E o \in ProbeOutcomes(KwpProbeReplies) :
              LET resp == IF o.got THEN ParseKwpResponse(o.frame)
                          ELSE NoneResp
              IN /\ LogProbe(o, "KWP", resp # NoneResp /\ resp.positive)
                 /\ last_tx' =
                      IF o.sent
                      THEN [id |-> scan_address,
                            data |-> <<KWP_SID_START_COMMUNICATION>>]
                      ELSE last_tx
                 /\ IF resp # NoneResp
                    THEN ProbeReturns(TRUE, "KWP")
                    ELSE /\ scan_pc' = "can"
                         /\ UNCHANGED <<discovered_ecus, scan_address,
                                        answered>>
       ELSE /\ scan_pc' = "can"
            /\ UNCHANGED <<discovered_ecus, scan_address, answered, last_tx,
                           probe_log>>
    /\ UNCHANGED <<connVars, selected_ecu, readVars, secHistory, probed,
                   fnVars>>

\* _probe_ecu, lines 131-139: KWP StartCommunication
ProbeKwp ==
    /\ scan_pc = "kwp"
    /\ IF kwp_protocol
       THEN \E o \in ProbeOutcomes(KwpProbeReplies) :
              LET resp == IF o.got THEN ParseKwpResponse(o.frame)
                          ELSE NoneResp
              IN /\ LogProbe(o, "KWP", resp # NoneResp /\ resp.positive)
                 /\ last_tx' =
                      IF o.sent
                      THEN [id |-> scan_address,
                            data |-> <<KWP_SID_START_COMMUNICATION>>]
                      ELSE last_tx
                 /\ IF IsPositive(resp)
                    THEN ProbeReturns(TRUE, "KWP")
                    ELSE /\ scan_pc' = "can"
                         /\ UNCHANGED <<discovered_ecus, scan_address,
                                        answered>>
       ELSE /\ scan_pc' = "can"
            /\ UNCHANGED <<discovered_ecus, scan_address, answered, last_tx,
                           probe_log>>
    /\ UNCHANGED <<connVars, selected_ecu, readVars, secHistory, probed,
                   fnVars>>

\* _probe_ecu, lines 141-154: the raw CAN message [0x01, 0x00]; a reply
\* counts when its data are not empty
ProbeCan ==
    /\ scan_pc = "can"
    /\ IF can_bus # "none"
       THEN \E o \in ProbeOutcomes(CanProbeReplies) :
              /\ LogProbe(o, "CAN", o.got /\ o.frame # <<>>)
              /\ last_tx' = IF o.sent
                            THEN [id |-> scan_address, data |-> <<1, 0>>]
                            ELSE last_tx
              /\ ProbeReturns(o.got /\ o.frame # <<>>, "CAN")
       ELSE /\ ProbeReturns(FALSE, "CAN")
            /\ UNCHANGED <<last_tx, probe_log>>
    /\ UNCHANGED <<connVars, selected_ecu, readVars, secHistory, probed,
                   fnVars>>

ScanNext ==
    \/ /\ scan_pc = "idle"
       /\ InitializeCommunication
       /\ UNCHANGED <<secHistory, scanVars, hostVars>>
    \/ /\ scan_pc = "idle"
       /\ Disconnect
       /\ UNCHANGED <<secHistory, scanVars, hostVars>>
    \/ ScanEcus /\ UNCHANGED hostVars
    \/ ProbeUds /\ UNCHANGED hostVars
    \/ ProbeKwp /\ UNCHANGED hostVars
    \/ ProbeCan /\ UNCHANGED hostVars

ScanSpec == Init /\ [][ScanNext]_vars

-----------------------------------------------------------------------------
(* The UDS response parser on its own: a frame is drawn, then parsed *)

\* Service ids of UDSProtocol (uds.py, lines 19-30)
UdsServiceIds == {16, 17, 34, 35, 39, 40, 49, 52, 53, 54, 55, 61}

\* Bytes the frames under test are made of: 0x40, 0x50 and 0x63 (0x10 and
\* 0x23 plus 0x40), 0x7F, and three data bytes
ParserBytes == {64, 80, 99, 127, 35, 49, 170}

RECURSIVE SeqsUpTo(_, _)
SeqsUpTo(S, n) ==
    IF n = 0 THEN {<<>>}
    ELSE LET shorter == SeqsUpTo(S, n - 1)
         IN shorter \cup {Append(q, b) : q \in shorter, b \in S}

ParserInit ==
    /\ InitManager
    /\ fn_in \in [data : SeqsUpTo(ParserBytes, MaxFrameLen)]
    /\ fn_out = Unset

\* UDSProtocol._parse_uds_response applied to the frame drawn
ApplyParseUds ==
    /\ fn_out = Unset
    /\ fn_out' = ParseUdsResponse(fn_in.data)
    /\ UNCHANGED <<managerVars, fn_in>>

ParserNext == ApplyParseUds

ParserSpec == ParserInit /\ [][ParserNext]_vars

-----------------------------------------------------------------------------
(* The UDS and KWP parsers on frames built around the negative-response    *)
(* introducers                                                             *)

\* 0x7F, 0xBF, the security-access service ids 0x27 and 0xE1, NRCs of both
\* tables (0x33, 0x37), of the UDS table only (0x72), of neither (0x99, 0x00)
NegativeFrameBytes == {127, 191, 39, 225, 51, 55, 114, 153, 0}

NegParserInit ==
    /\ InitManager
    /\ fn_in \in [protocol : {"UDS", "KWP"},
                  data : SeqsUpTo(NegativeFrameBytes, MaxFrameLen)]
    /\ fn_out = Unset

\* KWPProtocol._parse_kwp_response applied to the frame drawn
ApplyParseKwp ==
    /\ fn_out = Unset
    /\ fn_out' = ParseKwpResponse(fn_in.data)
    /\ UNCHANGED <<managerVars, fn_in>>

NegParserNext ==
    \/ fn_in.protocol = "UDS" /\ ApplyParseUds
    \/ fn_in.protocol = "KWP" /\ ApplyParseKwp

NegParserSpec == NegParserInit /\ [][NegParserNext]_vars

-----------------------------------------------------------------------------
(* The request encoders on their own: an address and a size are drawn, then *)
(* encoded                                                                  *)

\* The values drawn lie around the points where the length prefix changes
\* (0x100, 0x10000, 0x1000000), at zero, near 2^31 (the largest integers
\* the tool computes with), and at the address 0x00012345.
EncoderValues ==
    {v \in UNION {(b - EncSpread)..(b + EncSpread) :
                    b \in {0, 256, 65536, 16777216, 2147483000}} : v >= 0}
        \cup {74565}

EncoderInit ==
    /\ InitManager
    /\ fn_in \in [address : EncoderValues, size : EncoderValues]
    /\ fn_out = Unset

\* _format_address of both encoders applied to the address drawn
ApplyFormatAddress ==
    /\ fn_out = Unset
    /\ fn_out' = [fn |-> "format_address", value |-> fn_in.address,
                  uds |-> FormatAddress(fn_in.address),
                  kwp |-> KwpFormatAddress(fn_in.address)]
    /\ UNCHANGED <<managerVars, fn_in>>

\* _format_size of both encoders applied to the size drawn
ApplyFormatSize ==
    /\ fn_out = Unset
    /\ fn_out' = [fn |-> "format_size", value |-> fn_in.size,
                  uds |-> FormatSize(fn_in.size),
                  kwp |-> KwpFormatSize(fn_in.size)]
    /\ UNCHANGED <<managerVars, fn_in>>

\* The request read_memory_by_address builds for the pair drawn
ApplyReadMemoryRequest ==
    /\ fn_out = Unset
    /\ fn_out' = [fn |-> "read_memory_by_address",
                  uds |-> UdsReadMemoryRequest(fn_in.address, fn_in.size),
                  kwp |-> KwpReadMemoryRequest(fn_in.address, fn_in.size)]
    /\ UNCHANGED <<managerVars, fn_in>>

EncoderNext ==
    \/ ApplyFormatAddress
    \/ ApplyFormatSize
    \/ ApplyReadMemoryRequest

EncoderSpec == EncoderInit /\ [][EncoderNext]_vars

-----------------------------------------------------------------------------
(* The key derivations on their own: a seed and a level are drawn, then a  *)
(* derivation is applied                                                   *)

SeedBytes == {17, 34, 51, 68}

\* Seeds of 4 and 5 bytes for the vendor derivations: all ones, and values
\* that the exclusive-or with 0x34567890 or the sum with 0x78901234 turns
\* into all ones
VendorSeeds ==
    {<<255, 255, 255, 255>>, <<203, 169, 135, 111>>, <<135, 111, 237, 203>>,
     <<17, 34, 51, 68, 9>>}

KeyInit ==
    /\ InitManager
    /\ fn_in \in [seed : SeqsUpTo(SeedBytes, MaxSeedLen) \cup VendorSeeds,
                  level : {SecurityLevels[i] : i \in DOMAIN SecurityLevels}]
    /\ fn_out = Unset

\* _default_seed_key_algorithm applied to the seed and level drawn
ApplyDefaultKey ==
    /\ fn_out = Unset
    /\ fn_out' = [fn |-> "default",
                  key |-> DefaultSeedKeyAlgorithm(fn_in.seed, fn_in.level)]
    /\ UNCHANGED <<managerVars, fn_in>>

\* A vendor derivation of the registry applied to the seed and level drawn
ApplyVendorKey ==
    /\ fn_out = Unset
    /\ \E name \in VendorNames :
         fn_out' = [fn |-> name,
                    key |-> SeedKeyAlgorithm(name, fn_in.seed, fn_in.level)]
    /\ UNCHANGED <<managerVars, fn_in>>

KeyNext == ApplyDefaultKey \/ ApplyVendorKey

KeySpec == KeyInit /\ [][KeyNext]_vars

-----------------------------------------------------------------------------
(* The facade with a host that may ask for the running read to stop.       *)
(* read_bin_file takes no cancellation argument and its loop tests only    *)
(* the address (line 238): the request is the host's, and no operation of  *)
(* the facade reads it.                                                    *)

RequestCancel ==
    /\ pc = "read"
    /\ ~cancel_requested
    /\ cancel_requested' = TRUE
    /\ UNCHANGED <<connVars, selected_ecu, last_tx, readVars, secHistory,
                   scanVars, saveVars, received, seen, read_block,
                   fnVars, auditVars>>

CancelNext ==
    \/ Next
    \/ RequestCancel

CancelSpec == Init /\ [][CancelNext]_vars

-----------------------------------------------------------------------------
(* The facade with save_bin_file, used from one thread, and a record of    *)
(* the payloads the read loop was given                                    *)

\* A save_bin_file without the check of lines 312-314: it writes the buffer
\* whatever its length
SaveBinFileUnchecked(named) ==
    /\ IF ~named /\ selected_ecu = NoEcu
       THEN save_result' = "false" /\ UNCHANGED saved
       ELSE \E written \in BOOLEAN :
              IF written
              THEN /\ saved' = [written |-> TRUE, bytes |-> bin_data]
                   /\ save_result' = "true"
              ELSE save_result' = "false" /\ UNCHANGED saved
    /\ UNCHANGED <<connVars, selected_ecu, last_tx, readVars, secHistory,
                   scanVars, cancel_requested, received, seen, read_block,
                   fnVars, auditVars>>

\* ECUManger.save_bin_file.  named: a filename was given (without one the
\* name is made of the selected ECU's fields, line 319, which raises when no
\* ECU is selected).  written: the directory could be made and the file
\* opened and written; otherwise the exception is caught and the call
\* returns False.
SaveBinFile(named) ==
    /\ IF bin_data = <<>>
       THEN save_result' = "false" /\ UNCHANGED saved
       ELSE IF ~named /\ selected_ecu = NoEcu
       THEN save_result' = "false" /\ UNCHANGED saved
       ELSE \E written \in BOOLEAN :
              IF written
              THEN /\ saved' = [written |-> TRUE, bytes |-> bin_data]
                   /\ save_result' = "true"
              ELSE save_result' = "false" /\ UNCHANGED saved
    /\ UNCHANGED <<connVars, selected_ecu, last_tx, readVars, secHistory,
                   scanVars, cancel_requested, received, seen, read_block,
                   fnVars, auditVars>>

\* read_bin_file called: no payload received yet in this read
ReadBinFileFresh(s, e) ==
    /\ ReadBinFile(s, e)
    /\ received' = IF selected_ecu = NoEcu THEN received ELSE <<>>

\* The payload of a positive memory-read response, as it is returned to the
\* loop (line 240)
LogPayload(resp) ==
    received' = IF pc = "read" /\ IsPositive(resp)
                THEN received \o resp.data
                ELSE received

SaveRanges == {<<0, MaxRange>>}

SaveNext ==
    \/ /\ pc = "idle"
       /\ InitializeCommunication
       /\ UNCHANGED <<secHistory, scanVars, hostVars>>
    \/ pc = "idle" /\ Disconnect /\ UNCHANGED <<secHistory, scanVars, hostVars>>
    \/ \E e \in EcuDescriptors :
         /\ pc = "idle"
         /\ SelectEcu(e)
         /\ UNCHANGED <<secHistory, scanVars, hostVars>>
    \/ \E r \in SaveRanges :
         /\ ReadBinFileFresh(r[1], r[2])
         /\ UNCHANGED <<secHistory, scanVars, cancel_requested, saveVars,
                        seen, read_block, auditVars>>
    \/ Transmit /\ UNCHANGED <<secHistory, scanVars, hostVars>>
    \/ /\ TransmitFails
       /\ UNCHANGED <<secHistory, scanVars, hostVars>>
    \/ awaiting /\ \E resp \in Replies :
          /\ Receive(resp)
          /\ LogPayload(resp)
          /\ UNCHANGED <<secHistory, scanVars, cancel_requested, saveVars,
                         seen, read_block, auditVars>>
    \/ \E named \in BOOLEAN : pc = "idle" /\ SaveBinFile(named)

SaveSpec == Init /\ [][SaveNext]_vars

-----------------------------------------------------------------------------
(* The whole facade used from one thread: every operation of ECUManger,    *)
(* each called after the one before it has returned.  One read_bin_file    *)
(* call is made, and the sweeps are those made while the transport is not  *)
(* open, in which no probe gets an answer (ScanSpec has the others).       *)

\* ECUManger.get_progress
GetProgress ==
    /\ seen' = read_progress
    /\ UNCHANGED <<connVars, selected_ecu, last_tx, readVars, secHistory,
                   scanVars, cancel_requested, saveVars, received,
                   read_block, fnVars, auditVars>>

Returned == pc = "idle" /\ scan_pc = "idle"

FacadeNext ==
    \/ /\ Returned
       /\ InitializeCommunication
       /\ UNCHANGED <<secHistory, scanVars, hostVars>>
    \/ Returned /\ Disconnect /\ UNCHANGED <<secHistory, scanVars, hostVars>>
    \/ \E e \in EcuDescriptors :
         /\ Returned
         /\ SelectEcu(e)
         /\ UNCHANGED <<secHistory, scanVars, hostVars>>
    \/ \E r \in SaveRanges :
         /\ Returned
         /\ run = 0
         /\ ReadBinFileFresh(r[1], r[2])
         /\ UNCHANGED <<secHistory, scanVars, cancel_requested, saveVars,
                        seen, read_block, auditVars>>
    \/ Transmit /\ UNCHANGED <<secHistory, scanVars, hostVars>>
    \/ /\ TransmitFails
       /\ UNCHANGED <<secHistory, scanVars, hostVars>>
    \/ awaiting /\ \E resp \in Replies :
          /\ Receive(resp)
          /\ LogPayload(resp)
          /\ UNCHANGED <<secHistory, scanVars, cancel_requested, saveVars,
                         seen, read_block, auditVars>>
    \/ \E named \in BOOLEAN : Returned /\ SaveBinFile(named)
    \/ Returned /\ GetProgress
    \/ Returned /\ can_bus # "open" /\ ScanEcus /\ UNCHANGED hostVars
    \/ ProbeUds /\ UNCHANGED hostVars
    \/ ProbeKwp /\ UNCHANGED hostVars
    \/ ProbeCan /\ UNCHANGED hostVars

FacadeSpec == Init /\ [][FacadeNext]_vars

-----------------------------------------------------------------------------
(* The facade under the GUI's two threads.  BINReadWorker.run calls        *)
(* read_bin_file on a worker thread; meanwhile the UI thread's timer calls *)
(* update_progress every 100 ms, and the scan, select and disconnect       *)
(* buttons stay enabled (read_bin disables the read button only), so       *)
(* their handlers call the same ECUManger.  The statements of the loop     *)
(* body that store into shared attributes are steps of their own.  The UI  *)
(* thread's handlers run one after the other.  The host re-selects only    *)
(* the kind of ECU being read, and starts one sweep, while the worker      *)
(* waits for its first block; the sweep is followed to its end and no      *)
(* further.                                                                *)

\* The worker is about to make a service call, or waits in one
InServiceCall == pc \in SecurityPcs \cup {"read"}

\* Line 240: the block comes back from _read_memory_block
ReceiveBlock(resp) ==
    /\ awaiting
    /\ pc = "read"
    /\ IsPositive(resp)
    /\ awaiting' = FALSE
    /\ read_block' = resp.data
    /\ pc' = "extend"
    /\ LogPayload(resp)
    /\ UNCHANGED <<connVars, selected_ecu, last_tx, bin_data, read_progress,
                   start_address, end_address, current_address, level_ix,
                   key, result, run, bin_run, sec_result, last_block,
                   last_req, secHistory, scanVars, cancel_requested,
                   saveVars, seen, fnVars, auditVars>>

\* Lines 245-246
ExtendBuffer ==
    /\ pc = "extend"
    /\ bin_data' = bin_data \o read_block
    /\ bin_run' = bin_run \o [i \in 1..Len(read_block) |-> run]
    /\ current_address' = current_address + Advance(read_block, last_req.size)
    /\ last_block' = "ok"
    /\ pc' = "bytes_read"
    /\ UNCHANGED <<connVars, selected_ecu, last_tx, read_progress, awaiting,
                   start_address, end_address, level_ix, key, result, run,
                   sec_result, last_req, secHistory, scanVars, hostVars,
                   fnVars>>

\* Line 249
StoreBytesRead ==
    /\ pc = "bytes_read"
    /\ read_progress' = [read_progress EXCEPT !.bytes_read = Len(bin_data)]
    /\ pc' = "address"
    /\ UNCHANGED <<connVars, selected_ecu, last_tx, bin_data, awaiting,
                   start_address, end_address, current_address, level_ix,
                   key, result, run, bin_run, sec_result, last_block,
                   last_req, secHistory, scanVars, hostVars, fnVars>>

\* Line 250, then the loop's test (line 238) and, past the range, lines
\* 255-257
StoreCurrentAddress ==
    /\ pc = "address"
    /\ LET prog == [read_progress EXCEPT
                      !.current_address = current_address]
       IN IF current_address < end_address
          THEN /\ pc' = "read"
               /\ read_progress' = prog
               /\ UNCHANGED result
          ELSE /\ pc' = "idle"
               /\ read_progress' = [prog EXCEPT !.status = "complete"]
               /\ result' = "true"
    /\ UNCHANGED <<connVars, selected_ecu, last_tx, bin_data, awaiting,
                   start_address, end_address, current_address, level_ix,
                   key, result, run, bin_run, sec_result, last_block,
                   last_req, secHistory, scanVars, hostVars, fnVars>>

\* No sweep has been started
NoSweep == scan_pc = "idle" /\ probed = <<>>

ThreadsNext ==
    \/ /\ NoSweep
       /\ pc = "idle"
       /\ InitializeCommunication
       /\ UNCHANGED <<secHistory, scanVars, hostVars>>
    \/ \E e \in EcuDescriptors :
         /\ NoSweep
         /\ IF pc = "idle" THEN TRUE
            ELSE e.protocol = selected_ecu.protocol
         /\ SelectEcu(e)
         /\ UNCHANGED <<secHistory, scanVars, hostVars>>
    \/ \E r \in SaveRanges :
         /\ NoSweep
         /\ run = 0
         /\ ReadBinFileFresh(r[1], r[2])
         /\ UNCHANGED <<secHistory, scanVars, cancel_requested, saveVars,
                        seen, read_block, auditVars>>
    \/ /\ NoSweep
       /\ InServiceCall
       /\ Transmit
       /\ UNCHANGED <<secHistory, scanVars, hostVars>>
    \/ /\ NoSweep
       /\ InServiceCall
       /\ TransmitFails
       /\ UNCHANGED <<secHistory, scanVars, hostVars>>
    \/ NoSweep /\ awaiting /\ \E resp \in Replies :
          /\ pc # "read" \/ ~IsPositive(resp)
          /\ Receive(resp)
          /\ UNCHANGED <<secHistory, scanVars, hostVars>>
    \/ NoSweep /\ awaiting /\ \E resp \in Replies : ReceiveBlock(resp)
    \/ NoSweep /\ ExtendBuffer
    \/ NoSweep /\ StoreBytesRead
    \/ NoSweep /\ StoreCurrentAddress
    \/ NoSweep /\ GetProgress
    \/ NoSweep /\ Disconnect /\ UNCHANGED <<secHistory, scanVars, hostVars>>
    \/ /\ NoSweep
       /\ pc = "read"
       /\ awaiting
       /\ last_block = "none"
       /\ seen = Unset
       /\ ScanEcus
       /\ UNCHANGED hostVars
    \/ ProbeUds /\ UNCHANGED hostVars
    \/ ProbeKwp /\ UNCHANGED hostVars
    \/ ProbeCan /\ UNCHANGED hostVars

ThreadsSpec == Init /\ [][ThreadsNext]_vars

-----------------------------------------------------------------------------
(* Selection: select_ecu called with a descriptor of the discovery list,   *)
(* fresh or selected before, and a record of its identification reads      *)

\* What became of one ReadDataByIdentifier call of _get_ecu_details
IdentOutcome(e, t, f) ==
    IF ~(e.protocol = "UDS" /\ uds_protocol) THEN "unsent"
    ELSE IF ~t THEN "send failed"
    ELSE IF f = <<>> THEN "timeout"
    ELSE IF IsPositive(ParseUdsResponse(f)) THEN "positive"
    ELSE "negative"

\* The descriptors the host can pass: those of the discovery list, which are
\* the objects select_ecu has filled in when they were selected before
SelectInputs == EcuDescriptors \cup ({selected_ecu} \ {NoEcu})

SelectEcuLogged(e, t1, f1, t2, f2) ==
    /\ SelectEcuWith(e, t1, f1, t2, f2)
    /\ ident_log' = <<IdentOutcome(e, t1, f1), IdentOutcome(e, t2, f2)>>
    /\ UNCHANGED <<secHistory, scanVars, cancel_requested, saveVars,
                   received, seen, read_block, run_log, first_run, call,
                seed_key_algorithms>>

SelectNext ==
    \/ InitializeCommunication /\ UNCHANGED <<secHistory, scanVars, hostVars>>
    \/ Disconnect /\ UNCHANGED <<secHistory, scanVars, hostVars>>
    \/ \E e \in SelectInputs :
       \E t1, t2 \in SendOutcomes :
       \E f1, f2 \in IdentReplies \cup {<<>>} :
           SelectEcuLogged(e, t1, f1, t2, f2)

SelectSpec == Init /\ [][SelectNext]_vars

-----------------------------------------------------------------------------
(* Repeated reads: one UDS ECU, one range, up to MaxDetRuns calls of       *)
(* read_bin_file, with a record of what every service call returned        *)

\* What a run is given: the ECU, the range and the replies
RunKey ==
    [ecu |-> selected_ecu, first |-> start_address, last |-> end_address,
     log |-> run_log]

\* What a run ends with
RunOutcome ==
    [bin_data |-> bin_data, read_progress |-> read_progress,
     result |-> result]

\* The first call's inputs and outcome are kept when it returns
KeepFirst ==
    first_run' = IF run' = 1 /\ pc' = "idle"
                 THEN [key |-> RunKey', outcome |-> RunOutcome']
                 ELSE first_run

DetUnchanged ==
    UNCHANGED <<secHistory, scanVars, cancel_requested, saveVars, received,
                seen, read_block, ident_log, call,
                seed_key_algorithms>>

\* The ECU either stays silent or answers positively
DetReplies ==
    {NoneResp} \cup
    {ParseUdsResponse(f) :
       f \in (IF pc = "read"
              THEN {<<UDS_POSITIVE, UDS_SID_READ_MEMORY_BY_ADDRESS, 170>>}
              ELSE {<<UDS_POSITIVE, UDS_SID_SECURITY_ACCESS, 17>>})}

DetNext ==
    \/ /\ run = 0
       /\ InitializeCommunication
       /\ UNCHANGED <<secHistory, scanVars, hostVars>>
    \/ \E e \in {d \in EcuDescriptors : d.protocol = "UDS"} :
         /\ run = 0
         /\ selected_ecu = NoEcu
         /\ SelectEcuWith(e, FALSE, <<>>, FALSE, <<>>)
         /\ UNCHANGED <<secHistory, scanVars, hostVars>>
    \/ /\ run < MaxDetRuns
       /\ selected_ecu # NoEcu
       /\ uds_protocol
       /\ ReadBinFileCall(0, 1)
       /\ run_log' = <<>>
       /\ KeepFirst
       /\ DetUnchanged
    \/ /\ Transmit
       /\ UNCHANGED <<secHistory, scanVars, hostVars>>
    \/ /\ awaiting
       /\ \E resp \in DetReplies :
            /\ Receive(resp)
            /\ run_log' = Append(run_log, resp)
       /\ KeepFirst
       /\ DetUnchanged

DetSpec == Init /\ [][DetNext]_vars

-----------------------------------------------------------------------------
(* Service calls: _send_uds_message and _send_kwp_message under            *)
(* read_bin_file, with a count of the frames each call hands to the bus    *)
(* and of the receive_message calls it makes                               *)

\* Frames that reach the bus late: the answer to an identification read of
\* select_ecu or to a discovery probe that had timed out
LateFrames(protocol) ==
    IF protocol = "UDS" THEN IdentReplies
    ELSE {<<KWP_POSITIVE, KWP_SID_START_COMMUNICATION>>}

\* Frames receive_message may return to a call, which is the next frame on
\* the bus whatever it answers: the answers of the ECU to the request, late
\* frames, a positive tag alone, a negative response cut short, and <<>> for
\* None at the timeout
CallFrames ==
    LET p == selected_ecu.protocol
    IN (IF pc = "read" THEN ReadReplies(p) ELSE SecurityReplies(p))
         \cup LateFrames(p)
         \cup {<<PositiveByte(p)>>, <<NegativeByte(p), SecuritySid(p)>>, <<>>}

\* The frame is a positive response or a negative response of three bytes
WellFormed(protocol, frame) ==
    /\ Len(frame) >= 1
    /\ \/ frame[1] = PositiveByte(protocol)
       \/ frame[1] = NegativeByte(protocol) /\ Len(frame) >= 3

CallUnchanged ==
    UNCHANGED <<secHistory, scanVars, cancel_requested, saveVars, received,
                seen, read_block, ident_log, run_log, first_run,
                seed_key_algorithms>>

\* A frame handed to the bus belongs to the call that is waiting, or opens
\* a call
CountTransmit ==
    call' = IF awaiting THEN [call EXCEPT !.tx = @ + 1]
            ELSE [tx |-> 1, sent |-> TRUE, rx |-> 0, frame |-> <<>>,
                  returned |-> NoneResp]

CallNext ==
    \/ /\ run = 0
       /\ InitializeCommunication
       /\ UNCHANGED <<secHistory, scanVars, hostVars>>
    \/ run = 0 /\ Disconnect /\ UNCHANGED <<secHistory, scanVars, hostVars>>
    \/ \E e \in EcuDescriptors :
         /\ run = 0
         /\ SelectEcu(e)
         /\ UNCHANGED <<secHistory, scanVars, hostVars>>
    \/ /\ run = 0
       /\ ReadBinFile(0, 2)
       /\ UNCHANGED <<secHistory, scanVars, hostVars>>
    \/ Transmit /\ CountTransmit /\ CallUnchanged
    \/ /\ TransmitFails
       /\ call' = [tx |-> 1, sent |-> FALSE, rx |-> 0, frame |-> <<>>,
                   returned |-> NoneResp]
       /\ CallUnchanged
    \/ /\ awaiting
       /\ \E f \in CallFrames :
            LET resp == ParseResponse(selected_ecu.protocol, f)
            IN /\ Receive(resp)
               /\ call' = [call EXCEPT !.rx = @ + 1, !.frame = f,
                                       !.returned = resp]
       /\ CallUnchanged

CallSpec == Init /\ [][CallNext]_vars

-----------------------------------------------------------------------------
(* The registry of derivations: add_custom_algorithm, and the derivation   *)
(* perform_uds_security_access and perform_kwp_security_access pick for a  *)
(* name and _perform_security_level applies to the seed                    *)

\* Derivations a caller may register
CustomFuncs == {"reversed", "fixed"}

\* What the registered derivations compute: the seed backwards, or the
\* level as a single byte
CustomKey(f, seed, level) ==
    IF f = "reversed"
    THEN [i \in 1..Len(seed) |-> seed[Len(seed) + 1 - i]]
    ELSE <<level>>

\* A lookup that falls back on a registered derivation
SeedKeyFuncStrict(name) ==
    IF name \in DOMAIN seed_key_algorithms
    THEN seed_key_algorithms[name]
    ELSE "fixed"

\* `self.seed_key_algorithms.get(algorithm, self._default_seed_key_algorithm)`
SeedKeyFunc(name) ==
    IF name \in DOMAIN seed_key_algorithms
    THEN seed_key_algorithms[name]
    ELSE "default"

\* `seed_key_func(seed_data, level)`
ApplySeedKeyFunc(f, seed, level) ==
    IF f \in CustomFuncs THEN CustomKey(f, seed, level)
    ELSE SeedKeyAlgorithm(f, seed, level)

\* SecurityAccess.add_custom_algorithm
AddCustomAlgorithm(name, f) ==
    /\ seed_key_algorithms' =
         [n \in DOMAIN seed_key_algorithms \cup {name} |->
            IF n = name THEN f ELSE seed_key_algorithms[n]]
    /\ UNCHANGED <<connVars, selected_ecu, last_tx, readVars, secHistory,
                   scanVars, cancel_requested, saveVars, received, seen,
                   read_block, ident_log, run_log, first_run, call, fnVars>>

\* The key a negotiation requested with the name drawn computes from the
\* seed and level drawn
DeriveKey ==
    /\ fn_out' = [fn |-> SeedKeyFunc(fn_in.name),
                  key |-> ApplySeedKeyFunc(SeedKeyFunc(fn_in.name),
                                           fn_in.seed, fn_in.level)]
    /\ UNCHANGED <<managerVars, fn_in>>

\* Names a negotiation is requested with: two of the registry and one that
\* is not in it
RequestedNames == {"default", "bmw", "acme"}

RegistryInit ==
    /\ InitManager
    /\ fn_in \in [seed : SeqsUpTo(SeedBytes, 2) \ {<<>>},
                  level : {SecurityLevels[i] : i \in DOMAIN SecurityLevels},
                  name : RequestedNames]
    /\ fn_out = Unset

RegistryNext ==
    \/ \E name \in {"bmw", "acme"}, f \in CustomFuncs :
         AddCustomAlgorithm(name, f)
    \/ DeriveKey

RegistrySpec == RegistryInit /\ [][RegistryNext]_vars

-----------------------------------------------------------------------------
(* Claims *)

ReadEnded == pc = "idle" /\ result \in {"true", "false"}

\* C1: whenever the memory-read of a block yields a negative response or no
\* response, the loop stops, the progress status becomes error (not
\* complete) and read_bin_file reports failure.
C1_FailedBlockIsError ==
    last_block = "failed" =>
        /\ pc = "idle"
        /\ read_progress.status = "error"
        /\ result = "false"

\* C2: every read_bin_file(start, end) run (start < end, on an ECU there is
\* a protocol encoder for) that ends with status complete has
\* bytes_read = total_bytes = len(bin_data) = end - start.
C2_CompleteIsWholeRange ==
    (/\ ReadEnded
     /\ read_progress.status = "complete"
     /\ start_address < end_address
     /\ last_block # "unread") =>
        /\ read_progress.bytes_read = read_progress.total_bytes
        /\ read_progress.total_bytes = Len(bin_data)
        /\ Len(bin_data) = end_address - start_address

\* C3: at every point of a read of a non-empty range (on an ECU there is a
\* protocol encoder for), bytes_read is at most total_bytes, and they are
\* equal exactly when the status is complete.
C3_BytesReadWithinTotal ==
    (/\ read_progress.status # "idle"
     /\ read_progress.total_bytes > 0
     /\ last_block # "unread") =>
        /\ read_progress.bytes_read <= read_progress.total_bytes
        /\ (read_progress.bytes_read = read_progress.total_bytes)
              <=> (read_progress.status = "complete")

\* C4: every read_bin_file run (of a range with start < end) that fails, by
\* security access or by a failed block, ends with
\* bytes_read = len(bin_data) <= total_bytes.
C4_FailedRunBufferMatches ==
    (/\ ReadEnded
     /\ sec_result = "failed" \/ last_block = "failed"
     /\ start_address < end_address) =>
        /\ read_progress.bytes_read = Len(bin_data)
        /\ Len(bin_data) <= read_progress.total_bytes

\* C5: when security access fails in a read of a range with start < end,
\* read_bin_file has set the status to error (it is not left at reading) and
\* has sent no memory-read request.
C5_SecurityFailureIsError ==
    (ReadEnded /\ sec_result = "failed" /\ start_address < end_address) =>
        /\ read_progress.status = "error"
        /\ last_req = NoReq

\* C6: every read_bin_file call eventually returns, whatever the ECU
\* answers, given that each receive returns within its timeout.
C6_ReadBinReturns == (pc # "idle") ~> (pc = "idle")

\* C7: each memory-read request issued by the loop at current_address asks
\* for min(block_size, end_address - current_address) bytes.
C7_RequestWithinRange ==
    last_req # NoReq =>
        last_req.size = Min(BlockSize, end_address - last_req.address)

\* C8: from the moment read_bin_file has reset the progress record for a
\* read of a range with start < end, bin_data holds no byte read by an
\* earlier read_bin_file call.
C8_NoStaleBytes ==
    (read_progress.status # "idle" /\ start_address < end_address) =>
        \A i \in DOMAIN bin_run : bin_run[i] = run

\* C9: the loop advances current_address by the length of the payload it got,
\* so after every iteration current_address = start_address + len(bin_data),
\* and the progress record shows that address.
C9_AddressFollowsBuffer ==
    sec_result = "ok" =>
        /\ current_address = start_address + Len(bin_data)
        /\ read_progress.current_address = current_address
        /\ read_progress.bytes_read = Len(bin_data)

\* C9 witness: the loop goes on after a block whose payload was shorter than
\* the size requested
C9_Witness ==
    /\ pc = "read"
    /\ last_block = "ok"
    /\ Len(bin_data) > 0
    /\ Len(bin_data) < last_req.size
    /\ current_address = start_address + Len(bin_data)

\* C10: for every UDS response frame whose first byte is SID + 0x40, SID a
\* service id, followed by payload bytes, the parser yields a positive
\* response record with sid = SID and data = payload.
C10_PositiveFrameParsed ==
    (/\ fn_out # Unset
     /\ Len(fn_in.data) >= 1
     /\ fn_in.data[1] - 64 \in UdsServiceIds) =>
        fn_out = [positive |-> TRUE, sid |-> fn_in.data[1] - 64,
                  data |-> Tail(fn_in.data)]

\* C11: for every negative-response triple, [0x7F, SID, NRC] given to the UDS
\* parser or [0xBF, SID, NRC] given to the KWP parser, the parser yields a
\* negative response record carrying that sid and that nrc with a non-empty
\* description, whether or not the NRC is in the parser's table; the UDS
\* triple [0x7F, 0x27, 0x33] is described as "Security access denied".
C11_NegativeTripleParsed ==
    (/\ fn_out # Unset
     /\ Len(fn_in.data) = 3
     /\ fn_in.data[1] = (IF fn_in.protocol = "UDS" THEN 127 ELSE 191)) =>
        /\ fn_out # NoneResp
        /\ fn_out.positive = FALSE
        /\ fn_out.sid = fn_in.data[2]
        /\ fn_out.nrc = fn_in.data[3]
        /\ fn_out.error # ""
        /\ (fn_in.protocol = "UDS" /\ fn_in.data = <<127, 39, 51>>) =>
               fn_out.error = "Security access denied"

\* C11 witness: the KWP parser has parsed a negative triple whose NRC (0x72)
\* is not in its table
C11_Witness ==
    /\ fn_in = [protocol |-> "KWP", data |-> <<191, 225, 114>>]
    /\ fn_out = [positive |-> FALSE, sid |-> 225, nrc |-> 114,
                 error |-> "Unknown NRC"]

\* The length-prefixed decoding: one length byte n in 1..4, then n bytes, most
\* significant first; -1 when the bytes are not of that form
RECURSIVE BigEndian(_)
BigEndian(bytes) ==
    IF bytes = <<>> THEN 0
    ELSE 256 * BigEndian(SubSeq(bytes, 1, Len(bytes) - 1)) + bytes[Len(bytes)]

DecodePrefixed(enc) ==
    IF /\ Len(enc) >= 2
       /\ enc[1] \in 1..4
       /\ Len(enc) = enc[1] + 1
       /\ \A i \in 2..Len(enc) : enc[i] \in 0..255
    THEN BigEndian(Tail(enc))
    ELSE -1

\* C12: for every value v, the length-prefixed encoding of v as an address or
\* as a size decodes back to v, its length byte n is the smallest of 1..4
\* whose n bytes hold v, and the UDS and KWP encoders give the same bytes.
C12_LengthPrefixRoundTrip ==
    (fn_out # Unset /\ fn_out.fn \in {"format_address", "format_size"}) =>
        /\ DecodePrefixed(fn_out.uds) = fn_out.value
        /\ \A m \in 1..(fn_out.uds[1] - 1) : fn_out.value >= 256 ^ m
        /\ fn_out.kwp = fn_out.uds

\* C12 witness: 0xFF is encoded in one byte and 0x1000000 in four
C12_Witness ==
    /\ fn_out # Unset
    /\ fn_out.fn = "format_address"
    /\ \/ fn_out.value = 255 /\ fn_out.uds = <<1, 255>>
       \/ fn_out.value = 16777216 /\ fn_out.kwp = <<4, 1, 0, 0, 0>>

\* A read-memory request taken apart: the service id, then a length-prefixed
\* address, then a length-prefixed size, and nothing after it
DecodeReadMemory(frame) ==
    IF Len(frame) >= 2 /\ frame[2] \in 1..4 /\ Len(frame) >= frame[2] + 3
    THEN [sid |-> frame[1],
          address |-> DecodePrefixed(SubSeq(frame, 2, frame[2] + 2)),
          size |-> DecodePrefixed(SubSeq(frame, frame[2] + 3, Len(frame)))]
    ELSE [sid |-> -1, address |-> -1, size |-> -1]

\* C13: the ReadMemoryByAddress request for (A, S) is the service id (0x23
\* for UDS, 0xA3 for KWP), the length-prefixed address and the length-prefixed
\* size, so that it decodes back to (A, S); for (0x00012345, 0x100) the UDS
\* request is [0x23, 0x03, 0x01, 0x23, 0x45, 0x02, 0x01, 0x00].
C13_ReadMemoryRequestDecodes ==
    (fn_out # Unset /\ fn_out.fn = "read_memory_by_address") =>
        /\ DecodeReadMemory(fn_out.uds) =
              [sid |-> 35, address |-> fn_in.address, size |-> fn_in.size]
        /\ DecodeReadMemory(fn_out.kwp) =
              [sid |-> 163, address |-> fn_in.address, size |-> fn_in.size]
        /\ (fn_in.address = 74565 /\ fn_in.size = 256) =>
               fn_out.uds = <<35, 3, 1, 35, 69, 2, 1, 0>>

\* C13 witness: the request for (0x00012345, 0x100) has been built
C13_Witness ==
    /\ fn_out # Unset
    /\ fn_out.fn = "read_memory_by_address"
    /\ fn_in = [address |-> 74565, size |-> 256]
    /\ fn_out.kwp = <<163, 3, 1, 35, 69, 2, 1, 0>>

\* C14: security access tries the levels in the fixed order 1, 2, 3, 5, 7;
\* the first level whose key reply is answered positively ends the
\* negotiation with success, no security-access frame is sent after it, and
\* the negotiation reports success exactly when some level succeeded.
C14_FirstSuccessEnds ==
    negotiated =>
        /\ \A i \in DOMAIN sec_log : sec_log[i].level \in {1, 2, 3, 5, 7}
        /\ \A i, j \in DOMAIN sec_log :
              i < j => sec_log[i].level <= sec_log[j].level
        /\ \A i \in DOMAIN sec_log :
              sec_log[i].answer = "accepted" =>
                  i = Len(sec_log) /\ sec_result = "ok"
        /\ sec_result = "ok" <=>
              (sec_log # <<>> /\ sec_log[Len(sec_log)].answer = "accepted")
        /\ sec_result = "failed" => (pc = "idle" /\ result = "false")

\* C14 witness: level 3 succeeded after levels 1 and 2 had failed, and a
\* block has been read since
C14_Witness ==
    /\ negotiated
    /\ sec_result = "ok"
    /\ last_block = "ok"
    /\ Len(sec_log) >= 3
    /\ sec_log[1].level = 1
    /\ sec_log[Len(sec_log)].level = 3
    /\ sec_log[Len(sec_log)].answer = "accepted"

\* C15: in the attempt for level L the seed request carries sub-function L if
\* L is odd and L - 1 otherwise, the key reply carries L if L is even and
\* L + 1 otherwise; a key reply is sent only after the seed request of the
\* same attempt was answered positively with a non-empty payload and a key
\* was computed, otherwise the next level is tried with no key sent.
C15_SeedThenKey ==
    \A i \in DOMAIN sec_log :
        LET en == sec_log[i]
            L == en.level
        IN /\ en.kind = "seed" =>
                /\ en.sub = (IF L % 2 = 1 THEN L ELSE L - 1)
                /\ en.key = <<>>
           /\ en.kind \in {"key", "retry"} =>
                /\ en.sub = (IF L % 2 = 0 THEN L ELSE L + 1)
                /\ en.key # <<>>
           /\ en.kind = "key" =>
                /\ i > 1
                /\ sec_log[i - 1].kind = "seed"
                /\ sec_log[i - 1].level = L
                /\ sec_log[i - 1].answer = "seed"
           /\ (en.kind = "seed" /\ en.answer = "no seed" /\ i < Len(sec_log)) =>
                /\ sec_log[i + 1].kind = "seed"
                /\ sec_log[i + 1].level > L

\* C15 witness: the attempt for level 2 has sent its seed request under
\* sub-function 1 and its key reply under sub-function 2
C15_Witness ==
    /\ Len(sec_log) >= 2
    /\ sec_log[Len(sec_log)].kind = "key"
    /\ sec_log[Len(sec_log)].level = 2
    /\ sec_log[Len(sec_log)].sub = 2
    /\ sec_log[Len(sec_log) - 1].sub = 1

\* C16: per level the key reply is sent at most twice, the second time only
\* when the first was answered negatively with NRC 0x37; any other negative
\* or absent answer, or a failure of the second reply, moves on to the next
\* level; a negotiation sends at most 5 seed requests and 10 key replies.
C16_KeyReplyAtMostTwice ==
    /\ \A i \in DOMAIN sec_log :
         LET en == sec_log[i]
             L == en.level
         IN /\ en.kind = "retry" =>
                 /\ i > 1
                 /\ sec_log[i - 1].kind = "key"
                 /\ sec_log[i - 1].level = L
                 /\ sec_log[i - 1].answer = "delay"
                 /\ sec_log[i - 1].key = en.key
            /\ (/\ i < Len(sec_log)
                /\ \/ en.kind = "key" /\ en.answer = "rejected"
                   \/ en.kind = "retry" /\ en.answer \in {"delay", "rejected"})
               => /\ sec_log[i + 1].kind = "seed"
                  /\ sec_log[i + 1].level > L
    /\ \A L \in {1, 2, 3, 5, 7} :
         Cardinality({i \in DOMAIN sec_log :
                        sec_log[i].level = L /\ sec_log[i].kind # "seed"}) <= 2
    /\ Cardinality({i \in DOMAIN sec_log : sec_log[i].kind = "seed"}) <= 5
    /\ Cardinality({i \in DOMAIN sec_log : sec_log[i].kind # "seed"}) <= 10

\* C16 witness: a negotiation that sent 5 seed requests and 10 key replies
C16_Witness ==
    /\ Cardinality({i \in DOMAIN sec_log : sec_log[i].kind = "seed"}) = 5
    /\ Cardinality({i \in DOMAIN sec_log : sec_log[i].kind = "retry"}) = 5
    /\ sec_result = "failed"

\* C17: the default key derivation returns, for every non-empty seed and
\* every level, a key of the seed's length whose i-th byte is
\* seed[i] XOR (0x55 XOR level); seed [0x11, 0x22, 0x33, 0x44] at level 1
\* gives [0x45, 0x76, 0x67, 0x10].
C17_DefaultKey ==
    (fn_out # Unset /\ fn_out.fn = "default" /\ fn_in.seed # <<>>) =>
        /\ Len(fn_out.key) = Len(fn_in.seed)
        /\ \A i \in 1..Len(fn_in.seed) :
              fn_out.key[i] = Xor(fn_in.seed[i], Xor(85, fn_in.level))
        /\ (fn_in.seed = <<17, 34, 51, 68>> /\ fn_in.level = 1) =>
               fn_out.key = <<69, 118, 103, 16>>

\* C17 witness: the key of seed [0x11, 0x22, 0x33, 0x44] at level 1
C17_Witness ==
    /\ fn_in = [seed |-> <<17, 34, 51, 68>>, level |-> 1]
    /\ fn_out = [fn |-> "default", key |-> <<69, 118, 103, 16>>]

\* Rotation of a 32-bit integer to the left, and sum modulo 2^32
Rotl32(a, n) ==
    BitsInt([i \in 1..32 |-> IntBits(a)[((i - 1 + n) % 32) + 1]])

Add32(a, b) == Mask32(AddInt(a, b))

\* The tabulated transforms in unsigned 32-bit arithmetic with wrap-around
TabulatedKey(name, s, level) ==
    LET L == LevelInt(level) IN
    CASE name = "bmw" ->
           XorInt(Add32(MulMasked(s, <<18, 52, 86, 120>>),
                        <<135, 101, 67, 33>>), L)
      [] name = "audi" -> XorInt(Rotl32(Add32(s, <<18, 52, 86, 120>>), 3), L)
      [] name = "mercedes" ->
           XorInt(Rotl32(MulMasked(s, <<35, 69, 103, 137>>), 7), L)
      [] name = "volkswagen" ->
           Add32(Rotl32(XorInt(s, <<52, 86, 120, 144>>), 5), L)
      [] name = "toyota" -> XorInt(Rotl32(Add32(s, <<69, 103, 137, 1>>), 11), L)
      [] name = "honda" ->
           Add32(Rotl32(MulMasked(s, <<86, 120, 144, 18>>), 13), L)
      [] name = "ford" -> XorInt(Rotl32(XorInt(s, <<103, 137, 1, 35>>), 17), L)
      [] name = "gm" -> Add32(Rotl32(Add32(s, <<120, 144, 18, 52>>), 19), L)

\* C18: for every seed of at least 4 bytes and every level tried, each
\* vendor derivation returns exactly 4 bytes, the big-endian form of its
\* tabulated transform of the seed's first 4 bytes computed in unsigned
\* 32-bit arithmetic with wrap-around, the final ADD of the level of
\* volkswagen, honda and gm included.
C18_VendorKeyIsTabulated ==
    (fn_out # Unset /\ fn_out.fn \in VendorNames /\ Len(fn_in.seed) >= 4) =>
        fn_out.key = TabulatedKey(fn_out.fn, SeedInt(fn_in.seed), fn_in.level)

\* C19: scan_ecus probes exactly the 16 addresses 0x7E0..0x7EF in ascending
\* order, and after any sequence of scans the list holds only descriptors
\* found by the latest sweep: at most one per address, in ascending address
\* order, at most 16, and none when nothing answered.
C19_ScanResultIsLatestSweep ==
    /\ Len(probed) <= 16
    /\ \A i \in DOMAIN probed : probed[i] = 2016 + (i - 1)
    /\ (scan_pc = "idle" /\ probed # <<>>) => Len(probed) = 16
    /\ \A i \in DOMAIN discovered_ecus :
         /\ \E k \in DOMAIN probed : probed[k] = discovered_ecus[i].address
         /\ \E a \in answered : a.address = discovered_ecus[i].address
    /\ \A i, j \in DOMAIN discovered_ecus :
         i < j => discovered_ecus[i].address < discovered_ecus[j].address
    /\ Len(discovered_ecus) <= 16
    /\ answered = {} => discovered_ecus = <<>>

\* C19 witness: a finished sweep that found four ECUs, the first at 0x7E0 and
\* the last at 0x7EF
C19_Witness ==
    /\ scan_pc = "idle"
    /\ Len(probed) = 16
    /\ Len(discovered_ecus) = 4
    /\ discovered_ecus[1].address = 2016
    /\ discovered_ecus[4].address = 2031

\* C20: for each address the probes go out in the order UDS, KWP, raw CAN;
\* the descriptor's protocol is that of the first probe answered positively
\* (for raw CAN, by any non-empty reply), no later probe is sent to that
\* address, and there is no descriptor when no probe succeeds.  A sweep in
\* which only the UDS probe at one address is answered positively yields
\* exactly one descriptor, with protocol UDS and that address.
C20_FirstPositiveProbeWins ==
    LET log == probe_log.probes
        a == probe_log.address
        n == Len(log)
        Rank(p) == CASE p = "UDS" -> 1 [] p = "KWP" -> 2 [] p = "CAN" -> 3
        returned == /\ \E k \in DOMAIN probed : probed[k] = a
                    /\ scan_pc = "idle" \/ scan_address # a
    IN /\ \A i, j \in DOMAIN log :
            i < j => Rank(log[i].probe) < Rank(log[j].probe)
       /\ \A i \in DOMAIN log : log[i].positive => i = n
       /\ returned =>
            IF n > 0 /\ log[n].positive
            THEN /\ discovered_ecus # <<>>
                 /\ discovered_ecus[Len(discovered_ecus)].protocol
                      = log[n].probe
                 /\ discovered_ecus[Len(discovered_ecus)].address = a
            ELSE \A i \in DOMAIN discovered_ecus :
                     discovered_ecus[i].address # a
       /\ \A x \in ScanFirst..ScanLast :
            (scan_pc = "idle"
               /\ answered = {[address |-> x, probe |-> "UDS"]}) =>
                discovered_ecus =
                  <<[protocol |-> "UDS", address |-> x, vin |-> <<>>,
                     manufacturer |-> <<>>]>>

\* C20 witness: a finished sweep in which only the UDS probe at 0x7E8 was
\* answered positively
C20_Witness ==
    /\ scan_pc = "idle"
    /\ Len(probed) = 16
    /\ answered = {[address |-> 2024, probe |-> "UDS"]}
    /\ Len(discovered_ecus) = 1
    /\ discovered_ecus[1].protocol = "UDS"

\* C21: every request frame addressed to the ECU whose diagnostic response
\* address is R is handed to the bus with arbitration id R - 0x08, never with
\* R itself.
C21_RequestOnOffsetId ==
    (last_tx # NoTx /\ selected_ecu # NoEcu) =>
        /\ last_tx.id = selected_ecu.address - 8
        /\ last_tx.id # selected_ecu.address

\* C22: when the host has asked for cancellation while read_bin_file was in
\* its loop, the read ends with status error and message "cancelled", having
\* sent no memory-read request after the iteration that was running.
C22_CancelledReadStops ==
    (cancel_requested /\ pc = "idle") =>
        /\ read_progress.status = "error"
        /\ read_progress.error_message = "cancelled"

\* C23: a read_bin_file call with end_address < start_address is rejected
\* before the read starts: it has returned without a frame being sent
\* (neither security access nor a memory read is under way), and it has
\* reported neither success nor status complete.
C23_BackwardRangeRejected ==
    end_address < start_address =>
        /\ pc = "idle"
        /\ ~awaiting
        /\ sec_result = "none"
        /\ result # "true"
        /\ read_progress.status # "complete"

\* C29: a save_bin_file call made while the BIN buffer is empty returns
\* failure, writes no file, and leaves the buffer, the progress record and the
\* selected ECU as they were.
C29_EmptySaveFails ==
    [][(bin_data = <<>> /\ \E named \in BOOLEAN : SaveBinFile(named)) =>
          /\ save_result' = "false"
          /\ saved' = saved
          /\ bin_data' = bin_data
          /\ read_progress' = read_progress
          /\ selected_ecu' = selected_ecu]_vars

\* C29 witness: save_bin_file has returned failure after a read that ended
\* with nothing in the buffer, an ECU being selected; nothing was written
C29_Witness ==
    /\ run = 1
    /\ ReadEnded
    /\ read_progress.status = "complete"
    /\ selected_ecu # NoEcu
    /\ bin_data = <<>>
    /\ save_result = "false"
    /\ saved = NoFile

\* C28: when a read has ended the BIN buffer is exactly the concatenation of
\* the payloads of that read's positive memory-read responses, in the order
\* of the requests, and its length equals bytes_read; and a successful
\* save_bin_file writes exactly the buffer's bytes, nothing before or after
\* them, and leaves the buffer as it was.
C28_BufferIsPayloadsInOrder ==
    [][/\ ReadEnded' =>
             /\ bin_data' = received'
             /\ Len(bin_data') = read_progress'.bytes_read
       /\ ((\E named \in BOOLEAN : SaveBinFile(named))
              /\ save_result' = "true") =>
             /\ saved' = [written |-> TRUE, bytes |-> bin_data]
             /\ bin_data' = bin_data]_vars

\* A read_bin_file call that failed: it returned False, or its loop broke on
\* a block that could not be read
FailedRead ==
    /\ ReadEnded
    /\ result = "false" \/ last_block \in {"failed", "unread"}

\* C24: no step of a read_bin_file call changes the selected ECU or closes
\* the transport, so both are after a failing call what they were before it;
\* when the call fails in its loop the buffer holds the payloads of all
\* blocks read before the failure; and a buffer that is not empty can then
\* be saved as it is.
C24_FailureKeepsSession ==
    [][/\ (pc # "idle" \/ run' # run) =>
             /\ selected_ecu' = selected_ecu
             /\ can_bus' = can_bus
       /\ (FailedRead' /\ sec_result' = "ok") => bin_data' = received'
       /\ (FailedRead /\ bin_data # <<>>) =>
             ENABLED (/\ SaveBinFile(TRUE)
                      /\ save_result' = "true"
                      /\ saved' = [written |-> TRUE, bytes |-> bin_data])
      ]_vars

\* C24 witness: a read failed on a block after another block had been read;
\* the transport is still open, and the partial buffer has been saved
C24_Witness ==
    /\ FailedRead
    /\ last_block = "failed"
    /\ can_bus = "open"
    /\ selected_ecu # NoEcu
    /\ bin_data # <<>>
    /\ bin_data = received
    /\ save_result = "true"
    /\ saved = [written |-> TRUE, bytes |-> bin_data]

\* A step of one of the facade's operations other than read_bin_file
HostOperation ==
    \/ InitializeCommunication
    \/ ScanEcus \/ ProbeUds \/ ProbeKwp \/ ProbeCan
    \/ \E e \in EcuDescriptors : SelectEcu(e)
    \/ \E named \in BOOLEAN : SaveBinFile(named)
    \/ GetProgress
    \/ Disconnect

\* C25: initialize_communication, scan_ecus, select_ecu, save_bin_file,
\* get_progress and disconnect leave the progress record (bytes_read,
\* total_bytes, current_address, status, error message) unchanged: only
\* read_bin_file changes it.
C25_OnlyReadChangesProgress ==
    [][HostOperation => read_progress' = read_progress]_vars

\* C25 witness: after a read that got bytes, get_progress, save_bin_file and
\* disconnect have been called, a sweep has been made, and the progress
\* record is still the one the read left
C25_Witness ==
    /\ ReadEnded
    /\ read_progress.status = "complete"
    /\ read_progress.bytes_read > 0
    /\ seen = read_progress
    /\ save_result = "true"
    /\ saved = [written |-> TRUE, bytes |-> bin_data]
    /\ can_bus = "closed"
    /\ scan_pc = "idle"
    /\ Len(probed) = ScanLast - ScanFirst + 1

\* A step of scan_ecus
ScanStep == ScanEcus \/ ProbeUds \/ ProbeKwp \/ ProbeCan

C26_SnapshotConsistent ==
    [][(pc # "idle" /\ GetProgress) =>
          /\ seen'.current_address = start_address + seen'.bytes_read
          /\ seen'.bytes_read = Len(bin_data)]_vars

\* C27: a request frame is handed to the bus only when no earlier request's
\* response is still awaited, whichever thread sends it.
C27_RequestsInterleaved ==
    [][last_tx' # last_tx => ~awaiting]_vars

\* C31 as stated: select_ecu(d) selects d and returns success whatever the
\* identification reads give; a read that is not answered positively leaves
\* its field (VIN, manufacturer) empty; for a non-UDS ECU no request is sent.
C31_FailedReadLeavesFieldEmpty ==
    [][\A e \in SelectInputs :
       \A t1, t2 \in SendOutcomes :
       \A f1, f2 \in IdentReplies \cup {<<>>} :
         SelectEcuLogged(e, t1, f1, t2, f2) =>
           /\ select_result' = "true"
           /\ selected_ecu'.protocol = e.protocol
           /\ selected_ecu'.address = e.address
           /\ ident_log'[1] # "positive" => selected_ecu'.vin = <<>>
           /\ ident_log'[2] # "positive" => selected_ecu'.manufacturer = <<>>
           /\ e.protocol # "UDS" => last_tx' = last_tx]_vars

\* C31 amended: select_ecu(d) selects d and returns success whatever the
\* identification reads give; a read that is not answered positively leaves
\* its field as d carried it (empty for a descriptor never identified), a
\* positive one stores its payload; for a non-UDS ECU no request is sent.
C31_FailedReadKeepsField ==
    [][\A e \in SelectInputs :
       \A t1, t2 \in SendOutcomes :
       \A f1, f2 \in IdentReplies \cup {<<>>} :
         SelectEcuLogged(e, t1, f1, t2, f2) =>
           /\ select_result' = "true"
           /\ selected_ecu'.protocol = e.protocol
           /\ selected_ecu'.address = e.address
           /\ ident_log'[1] # "positive" => selected_ecu'.vin = e.vin
           /\ ident_log'[2] # "positive" =>
                 selected_ecu'.manufacturer = e.manufacturer
           /\ (e.vin = <<>> /\ ident_log'[1] # "positive") =>
                 selected_ecu'.vin = <<>>
           /\ e.protocol # "UDS" => last_tx' = last_tx]_vars

\* A descriptor selected again: its VIN read is answered negatively, its
\* manufacturer read not at all, and it keeps the VIN of the first selection
C31_Witness ==
    /\ select_result = "true"
    /\ selected_ecu # NoEcu
    /\ ident_log = <<"negative", "timeout">>
    /\ selected_ecu.vin # <<>>
    /\ selected_ecu.manufacturer = <<>>

\* C32: two read_bin_file runs with the same selected ECU, the same range
\* and the same sequence of replies end with the same BIN buffer, the same
\* progress record and the same return value, whatever an earlier read left.
C32_SameRepliesSameOutcome ==
    (pc = "idle" /\ run > 1 /\ first_run # Unset /\ RunKey = first_run.key) =>
        RunOutcome = first_run.outcome

\* C33: a UDS or KWP service call hands one frame to the bus and then calls
\* receive_message at most once, never sending again; when the transmit fails
\* it does not receive and returns None; when the frame received is neither
\* a positive nor a well-formed negative response it returns None.
C33_OneTransmitOneReceive ==
    call # NoCall =>
        /\ call.tx = 1
        /\ call.rx <= 1
        /\ awaiting => (call.sent /\ call.rx = 0)
        /\ ~call.sent => (call.rx = 0 /\ call.returned = NoneResp)
        /\ (~awaiting /\ call.sent) => call.rx = 1
        /\ (call.rx = 1 /\ ~WellFormed(selected_ecu.protocol, call.frame)) =>
              call.returned = NoneResp

\* A call has sent its frame and received a negative response cut short,
\* which it gave back as None
C33_Witness ==
    /\ call.tx = 1
    /\ call.sent
    /\ call.rx = 1
    /\ Len(call.frame) = 2
    /\ call.returned = NoneResp

\* C34: a positive response record a service call returns has a service id,
\* and it is the service id of the request the call sent; a frame that
\* answers another service or an earlier request is not returned as the
\* positive response of this call.
C34_PositiveAnswersRequest ==
    (call.rx = 1 /\ IsPositive(call.returned)) =>
        /\ call.returned.sid # NullSid
        /\ call.returned.sid = last_tx.data[1]

\* C35: within one read_bin_file run on a UDS or KWP ECU, a memory-read
\* request is transmitted only after a key reply of that run was answered
\* positively, and no security-access frame is transmitted once the run has
\* sent a memory-read request.
C35_UnlockBeforeRead ==
    [][Transmit =>
         /\ pc = "read" =>
              /\ sec_log # <<>>
              /\ sec_log[Len(sec_log)].kind \in {"key", "retry"}
              /\ sec_log[Len(sec_log)].answer = "accepted"
         /\ pc \in SecurityPcs => last_req = NoReq]_vars

\* A second memory-read request of a run is waiting for its answer; the
\* run's last security-access frame was a key reply the ECU accepted
C35_Witness ==
    /\ pc = "read"
    /\ awaiting
    /\ last_block = "ok"
    /\ last_req # NoReq
    /\ sec_log # <<>>
    /\ sec_log[Len(sec_log)].answer = "accepted"

\* C36: every frame the stack hands to the transport carries at most 8 data
\* bytes; in particular the ReadMemoryByAddress request for a block of 256
\* bytes at any 32-bit address.
C36_FrameFitsEightBytes ==
    (/\ fn_out # Unset
     /\ fn_out.fn = "read_memory_by_address"
     /\ fn_in.size = BlockSize) =>
        /\ Len(fn_out.uds) <= 8
        /\ Len(fn_out.kwp) <= 8

C37_NoEcuNoRead ==
    [][(run' = run + 1 /\ selected_ecu = NoEcu) =>
          /\ result' = "false"
          /\ pc' = "idle"
          /\ ~awaiting'
          /\ last_tx' = last_tx
          /\ read_progress' = read_progress
          /\ bin_data' = bin_data]_vars

\* read_bin_file has been called twice on an open bus with no ECU selected
C37_Witness ==
    /\ selected_ecu = NoEcu
    /\ can_bus = "open"
    /\ run = 2
    /\ pc = "idle"
    /\ result = "false"
    /\ read_progress.status = "idle"

\* C39: read_bin_file on a selected ECU whose protocol is raw CAN hands no
\* frame to the bus, neither a security-access frame nor a memory-read
\* request, and returns at once with an empty BIN buffer and bytes_read = 0,
\* whatever the range.
C39_RawCanReadsNothing ==
    [][(run' = run + 1 /\ selected_ecu # NoEcu) =>
          IF selected_ecu.protocol = "CAN"
          THEN /\ pc' = "idle"
               /\ ~awaiting'
               /\ last_tx' = last_tx
               /\ bin_data' = <<>>
               /\ read_progress'.bytes_read = 0
          ELSE TRUE]_vars

\* A raw CAN ECU was selected after a read that had filled the buffer from a
\* UDS or KWP ECU, and read_bin_file has returned with the buffer empty; the
\* last frame on the bus is still the memory-read request of the first read
C39_Witness ==
    /\ selected_ecu # NoEcu
    /\ selected_ecu.protocol = "CAN"
    /\ run = 2
    /\ pc = "idle"
    /\ bin_data = <<>>
    /\ read_progress.bytes_read = 0
    /\ last_req = NoReq
    /\ Len(last_tx.data) > 2
    /\ last_tx.data[1] \in {UDS_SID_READ_MEMORY_BY_ADDRESS,
                            KWP_SID_READ_MEMORY_BY_ADDRESS}

\* C40: a negotiation requested with a name that is not in the registry
\* derives its keys with the default XOR derivation, and so does not fail
\* for the name; after add_custom_algorithm(n, f) the registry holds f under
\* n, and a negotiation requested with n derives its keys with f.
C40_UnknownNameDefaultsCustomApplies ==
    [][/\ DeriveKey =>
            IF fn_in.name \notin DOMAIN seed_key_algorithms
            THEN /\ fn_out'.key =
                      DefaultSeedKeyAlgorithm(fn_in.seed, fn_in.level)
                 /\ fn_out'.key # <<>>
            ELSE \A f \in CustomFuncs :
                   seed_key_algorithms[fn_in.name] = f =>
                     fn_out'.key = CustomKey(f, fn_in.seed, fn_in.level)
       /\ \A name \in {"bmw", "acme"}, f \in CustomFuncs :
            AddCustomAlgorithm(name, f) =>
              /\ name \in DOMAIN seed_key_algorithms'
              /\ seed_key_algorithms'[name] = f]_vars

\* "acme" was registered with the derivation that reverses the seed, and a
\* negotiation requested with that name has derived its key from a seed of
\* two different bytes: the seed backwards, which the default derivation
\* does not give
C40_Witness ==
    /\ fn_out # Unset
    /\ fn_in.name = "acme"
    /\ "acme" \in DOMAIN seed_key_algorithms
    /\ seed_key_algorithms["acme"] = "reversed"
    /\ Len(fn_in.seed) = 2
    /\ fn_in.seed[1] # fn_in.seed[2]
    /\ fn_out.key = <<fn_in.seed[2], fn_in.seed[1]>>
    /\ fn_out.key # DefaultSeedKeyAlgorithm(fn_in.seed, fn_in.level)

=============================================================================
